---- MODULE Spec2Model ----
(***************************************************************************)
(* A model of glimpse's image-pre-processor (src/src/image-pre-processor.cc): *)
(* the worker pool draining the work queue, the frame-diff filter, the noise *)
(* operators, the depth clamp and sanity guard, the mirrored variant and the *)
(* output writer.                                                            *)
(*                                                                           *)
(* Depths are integers (one unit is a fixed fraction of a metre); the two    *)
(* non-finite floats are the values NaN and PosInf, and every float          *)
(* operation the code performs goes through FAdd / FGt / FEq / FNe, which    *)
(* follow IEEE-754 for them.                                                 *)
(***************************************************************************)
EXTENDS Integers, Naturals, Sequences, FiniteSets, TLC

(* ------------------------------------------------------------------ *)
(* Bounds of the model                                                 *)
(* ------------------------------------------------------------------ *)

\* worker threads started by main (n_threads)
NumWorkers == 2

\* how many times the pipeline is started over the same output directory
\* in the resume specification
MaxRuns == 2

\* most pixels (width * height) of an image of the flip specification
MaxPixels == 6

\* longest work unit of the filter specification, and most entries of a
\* directory of the scan specification
MaxFrames == 3

\* most entries of the "noise" array of a config file
MaxNoiseOps == 2

\* largest max_size a memory pool is created with
MaxPoolSize == 2

\* most events the device and the context deliver in one run of
\* recording2target
MaxEvents == 3

(* ------------------------------------------------------------------ *)
(* Program constants                                                   *)
(* ------------------------------------------------------------------ *)

BACKGROUND_ID == 0

\* max_frame_count's initial value: no frame budget
UINT64_MAX == 2147483647

\* the floats std::isnan / std::isinf recognise
NaN == -1000

PosInf == 1000

\* uniform_int_distribution<int>(0, 7): eight neighbours
NumNeighbours == 8

(* ------------------------------------------------------------------ *)
(* Float operations on depths                                          *)
(* ------------------------------------------------------------------ *)

isnan(d) == d = NaN

isinf(d) == d = PosInf

\* a + b, b finite
FAdd(a, b) == IF isnan(a) \/ isinf(a) THEN a ELSE a + b

\* a > b; every comparison with a NaN is false
FGt(a, b) == IF isnan(a) \/ isnan(b) THEN FALSE ELSE a > b

\* a == b
FEq(a, b) == IF isnan(a) \/ isnan(b) THEN FALSE ELSE a = b

\* a != b
FNe(a, b) == ~FEq(a, b)

(* ------------------------------------------------------------------ *)
(* Images                                                              *)
(* ------------------------------------------------------------------ *)

\* struct image: data is row major, data[width * y + x + 1] is the pixel (x, y)
Image(w, h, d) == [width |-> w, height |-> h, data |-> d]

\* a NULL struct image pointer
NULL == Image(0, 0, << >>)

\* the content of a freshly malloc'ed buffer: no pixel of it has been assigned
Unassigned == -1

xalloc_image(w, h) == Image(w, h, [p \in 1..(w * h) |-> Unassigned])

(* ------------------------------------------------------------------ *)
(* State                                                               *)
(* ------------------------------------------------------------------ *)

\* the options and properties main sets before any worker runs
VARIABLES seed_opt, no_flip_opt, bg_far_clamp_mode_opt, write_pfm_depth, noise_ops, background_depth_m, min_body_size_px, min_body_change_percent, max_frame_count, left_to_right_map

\* the source tree: for frame number f the label image, the depth image and
\* whether the frame has a .json sidecar, at index f + 1
VARIABLES src_tree

\* the shared state of the pipeline
VARIABLES work_queue, work_queue_lock, frame_count, finished, files, exit_code

\* main's position and its loop index
VARIABLES main_pc, main_i

\* each worker's position and locals
VARIABLES pc, work, i, prev_frame_labels, labels, depth, noisy_labels, noisy_depth, rand_generator

\* what happened so far: which workers popped each unit, the frames of each
\* unit that were begun, dropped and finished, the number of this run, and
\* the state each worker's generator had when its last frame_add_noise began,
\* and the label images on the heap: the frames whose image is allocated,
\* was freed, was freed again, and the frame each worker's
\* prev_frame_labels points at
VARIABLES popped, unit_log, run, rand_at_noise, label_heap

\* the pure-function specifications: position, inputs and result
VARIABLES t_pc, t_in, t_out

cfgVars == <<seed_opt, no_flip_opt, bg_far_clamp_mode_opt, write_pfm_depth, noise_ops, background_depth_m, min_body_size_px, min_body_change_percent, max_frame_count, left_to_right_map, src_tree>>

sharedVars == <<work_queue, work_queue_lock, frame_count, finished, files, exit_code>>

mainVars == <<main_pc, main_i>>

localVars == <<work, i, prev_frame_labels, labels, depth, noisy_labels, noisy_depth, rand_generator>>

histVars == <<popped, unit_log, run, rand_at_noise, label_heap>>

testVars == <<t_pc, t_in, t_out>>

vars == <<cfgVars, sharedVars, mainVars, pc, localVars, histVars, testVars>>

\* no label image is allocated and every prev_frame_labels is NULL
NoLabelImages == [live |-> {}, freed |-> {}, twice |-> {}, prev |-> [w \in 0..(NumWorkers - 1) |-> -1]]

\* the heap after load_frame_labels allocated the image of frame f
alloc_labels(heap, f) == [heap EXCEPT !.live = @ \cup {f}]

\* the heap after free_image on the label image of frame f
free_image(heap, f) ==
    IF f \in heap.live
    THEN [heap EXCEPT !.live = @ \ {f}, !.freed = @ \cup {f}]
    ELSE [heap EXCEPT !.twice = @ \cup {f}]

\* if (prev_frame_labels) free_image(prev_frame_labels), for worker w
free_prev(heap, w) == IF heap.prev[w] # -1 THEN free_image(heap, heap.prev[w]) ELSE heap

Workers == 0..(NumWorkers - 1)

(* ------------------------------------------------------------------ *)
(* The random generator                                                *)
(* ------------------------------------------------------------------ *)

\* std::default_random_engine: its state is fixed by the seed it was last
\* given and the number of values drawn from it since
seed(s) == [seed |-> s, n |-> 0]

engine_next(r) == [r EXCEPT !.n = @ + 1]

engine_value(r) == 7 * r.seed + 3 * r.n

\* uniform_int_distribution<int>(0, 7)
uniform_distribution(r) == engine_value(r) % NumNeighbours

\* normal_distribution<float>(0, sigma): one of -sigma, 0, sigma
gaus_distribution(r, sigma) == ((engine_value(r) % 3) - 1) * sigma

\* perlin2d(x, y, freq, octaves, seed): a fixed function of its arguments,
\* in -1 .. 1
perlin2d(x, y, freq, octaves, s) == ((x * freq + 2 * y + octaves + s) % 3) - 1

(* ------------------------------------------------------------------ *)
(* Flipping                                                            *)
(* ------------------------------------------------------------------ *)

RECURSIVE flip_depth_row(_, _, _, _, _)
flip_depth_row(depth_data, out_data, width, y, x) ==
    IF x >= width THEN out_data
    ELSE LET opposite == width - 1 - x
             o1 == [out_data EXCEPT ![y * width + x + 1] = depth_data[y * width + opposite + 1]]
             o2 == [o1 EXCEPT ![y * width + opposite + 1] = depth_data[y * width + x + 1]]
         IN  flip_depth_row(depth_data, o2, width, y, x + 1)

RECURSIVE flip_depth_rows(_, _, _, _, _)
flip_depth_rows(depth_data, out_data, width, height, y) ==
    IF y >= height THEN out_data
    ELSE flip_depth_rows(depth_data, flip_depth_row(depth_data, out_data, width, y, 0), width, height, y + 1)

\* the flip done in place: every read sees the writes made before it
RECURSIVE flip_depth_row_in_place(_, _, _, _)
flip_depth_row_in_place(buf, width, y, x) ==
    IF x >= width THEN buf
    ELSE LET opposite == width - 1 - x
             o1 == [buf EXCEPT ![y * width + x + 1] = buf[y * width + opposite + 1]]
             o2 == [o1 EXCEPT ![y * width + opposite + 1] = o1[y * width + x + 1]]
         IN  flip_depth_row_in_place(o2, width, y, x + 1)

RECURSIVE flip_depth_rows_in_place(_, _, _, _)
flip_depth_rows_in_place(buf, width, height, y) ==
    IF y >= height THEN buf
    ELSE flip_depth_rows_in_place(flip_depth_row_in_place(buf, width, y, 0), width, height, y + 1)

flip_frame_depth_in_place(d, out) == Image(d.width, d.height, flip_depth_rows_in_place(d.data, d.width, d.height, 0))

\* flip_frame_depth(depth, out): the out image after the call
flip_frame_depth(d, out) == Image(out.width, out.height, flip_depth_rows(d.data, out.data, d.width, d.height, 0))

\* a row loop that stops at the middle of the row
RECURSIVE flip_labels_row_half(_, _, _, _, _)
flip_labels_row_half(labels_data, out_data, width, y, x) ==
    IF x >= width \div 2 THEN out_data
    ELSE LET opposite == width - 1 - x
             o1 == [out_data EXCEPT ![y * width + x + 1] = left_to_right_map[labels_data[y * width + opposite + 1]]]
             o2 == [o1 EXCEPT ![y * width + opposite + 1] = left_to_right_map[labels_data[y * width + x + 1]]]
         IN  flip_labels_row_half(labels_data, o2, width, y, x + 1)

\* the row loop of flip_frame_labels, x from 0 to width - 1
RECURSIVE flip_labels_row(_, _, _, _, _)
flip_labels_row(labels_data, out_data, width, y, x) ==
    IF x >= width THEN out_data
    ELSE LET opposite == width - 1 - x
             o1 == [out_data EXCEPT ![y * width + x + 1] = left_to_right_map[labels_data[y * width + opposite + 1]]]
             o2 == [o1 EXCEPT ![y * width + opposite + 1] = left_to_right_map[labels_data[y * width + x + 1]]]
         IN  flip_labels_row(labels_data, o2, width, y, x + 1)

RECURSIVE flip_labels_rows(_, _, _, _, _)
flip_labels_rows(labels_data, out_data, width, height, y) ==
    IF y >= height THEN out_data
    ELSE flip_labels_rows(labels_data, flip_labels_row(labels_data, out_data, width, y, 0), width, height, y + 1)

RECURSIVE flip_labels_row_in_place(_, _, _, _)
flip_labels_row_in_place(buf, width, y, x) ==
    IF x >= width THEN buf
    ELSE LET opposite == width - 1 - x
             o1 == [buf EXCEPT ![y * width + x + 1] = left_to_right_map[buf[y * width + opposite + 1]]]
             o2 == [o1 EXCEPT ![y * width + opposite + 1] = left_to_right_map[o1[y * width + x + 1]]]
         IN  flip_labels_row_in_place(o2, width, y, x + 1)

RECURSIVE flip_labels_rows_in_place(_, _, _, _)
flip_labels_rows_in_place(buf, width, height, y) ==
    IF y >= height THEN buf
    ELSE flip_labels_rows_in_place(flip_labels_row_in_place(buf, width, y, 0), width, height, y + 1)

flip_frame_labels_in_place(l, out) == Image(l.width, l.height, flip_labels_rows_in_place(l.data, l.width, l.height, 0))

\* flip_frame_labels(labels, out): the out image after the call
flip_frame_labels(l, out) == Image(out.width, out.height, flip_labels_rows(l.data, out.data, l.width, l.height, 0))

(* ------------------------------------------------------------------ *)
(* The frame filter                                                    *)
(* ------------------------------------------------------------------ *)

\* frame_diff(a, b): n_body_px and n_different_px as the two loops count them,
\* and the returned flag.  percent = n_different_px * 100 / n_body_px is a
\* float division: with n_body_px = 0 it is NaN or infinite and the test
\* percent < min_body_change_percent is false.  min_body_change_percent is the
\* fraction num / den.
frame_diff(a, b) ==
    LET n_body_px == Cardinality({p \in 1..(a.width * a.height) : a.data[p] # BACKGROUND_ID})
        n_different_px == Cardinality({p \in 1..(a.width * a.height) : a.data[p] # b.data[p]})
        less == IF n_body_px = 0 THEN FALSE
                ELSE n_different_px * 100 * min_body_change_percent.den < min_body_change_percent.num * n_body_px
    IN  [differ |-> ~less, n_different_px |-> n_different_px, n_body_px |-> n_body_px]

\* a filter without the "too similar" test
filter_frame_any_change(l, prev) ==
    IF prev = NULL THEN "retain"
    ELSE LET d == frame_diff(l, prev)
         IN  IF d.n_body_px = 0 THEN "empty"
             ELSE IF d.n_body_px < min_body_size_px THEN "too small"
             ELSE "retain"

\* a filter that applies the body-size tests to a frame without predecessor
filter_frame_sized(l, prev) ==
    LET d == frame_diff(l, IF prev = NULL THEN l ELSE prev)
    IN  IF d.n_body_px = 0 THEN "empty"
        ELSE IF d.n_body_px < min_body_size_px THEN "too small"
        ELSE IF prev # NULL /\ ~d.differ THEN "too similar"
        ELSE "retain"

\* a filter that tests the change before the body size
filter_frame_similar_first(l, prev) ==
    IF prev = NULL THEN "retain"
    ELSE LET d == frame_diff(l, prev)
         IN  IF d.n_body_px = 0 THEN "empty"
             ELSE IF ~d.differ THEN "too similar"
             ELSE IF d.n_body_px < min_body_size_px THEN "too small"
             ELSE "retain"

\* the decision of worker_thread_cb for a frame whose predecessor image is
\* prev: "retain" or the reason of the skip
filter_frame(l, prev) ==
    IF prev = NULL THEN "retain"
    ELSE LET d == frame_diff(l, prev)
         IN  IF d.n_body_px = 0 THEN "empty"
             ELSE IF d.n_body_px < min_body_size_px THEN "too small"
             ELSE IF ~d.differ THEN "too similar"
             ELSE "retain"

(* ------------------------------------------------------------------ *)
(* The noise operators                                                 *)
(* ------------------------------------------------------------------ *)

neighbour_position == << [x |-> -1, y |-> -1], [x |-> 0, y |-> -1], [x |-> 1, y |-> -1], [x |-> -1, y |-> 0], [x |-> 1, y |-> 0], [x |-> -1, y |-> 1], [x |-> 0, y |-> 1], [x |-> 1, y |-> 1] >>

\* the pixel that in_label_at(x + dx, y + dy) and in_depth_at(x + dx, y + dy)
\* read, as a position of the image's sequence: the macros are
\* *(px + width * y + x) with unparenthesised arguments, so the row offset dy
\* is added to the address, not multiplied by the width
macro_at(width, x, y, dx, dy) == width * y + dy + x + dx + 1

\* the pixel of column x + dx and row y + dy
pixel_at(width, x, y, dx, dy) == width * (y + dy) + (x + dx) + 1

\* a depth read that addresses column x + dx of row y + dy
in_depth_at_row_major(width, x, y, dx, dy) == pixel_at(width, x, y, dx, dy)

\* in_depth_at(x + rel_pos->x, y + rel_pos->y): the position the macro reads
in_depth_at(width, x, y, dx, dy) == macro_at(width, x, y, dx, dy)

\* a pass that reads the image it is writing instead of the copy
RECURSIVE swizzle_loop_in_place(_, _, _, _, _, _, _, _)
swizzle_loop_in_place(in_labels, in_depth, out_labels, out_depth, r, width, height, k) ==
    IF width < 3 \/ height < 3 \/ k >= (width - 2) * (height - 2)
    THEN [labels |-> out_labels, depth |-> out_depth, rand |-> r]
    ELSE LET x == 1 + (k % (width - 2))
             y == 1 + (k \div (width - 2))
             at(dx, dy) == macro_at(width, x, y, dx, dy)
             neighbour_label == [n \in 1..NumNeighbours |-> out_labels[at(neighbour_position[n].x, neighbour_position[n].y)]]
             edge == \E n \in 1..NumNeighbours : neighbour_label[n] = BACKGROUND_ID
         IN  IF out_labels[at(0, 0)] # BACKGROUND_ID /\ edge
             THEN LET neighbour == uniform_distribution(r)
                      rel_pos == neighbour_position[neighbour + 1]
                  IN  swizzle_loop_in_place(in_labels, in_depth,
                                   [out_labels EXCEPT ![at(0, 0)] = neighbour_label[neighbour + 1]],
                                   [out_depth EXCEPT ![at(0, 0)] = out_depth[at(rel_pos.x, rel_pos.y)]],
                                   engine_next(r), width, height, k + 1)
             ELSE swizzle_loop_in_place(in_labels, in_depth, out_labels, out_depth, r, width, height, k + 1)

\* the loops of apply_foreground_edge_swizzle over the interior pixels, the
\* k-th of them being (1 + k % (width - 2), 1 + k \div (width - 2)); in_* is
\* the copy made before the pass, out_* the image being written
RECURSIVE swizzle_loop(_, _, _, _, _, _, _, _)
swizzle_loop(in_labels, in_depth, out_labels, out_depth, r, width, height, k) ==
    IF width < 3 \/ height < 3 \/ k >= (width - 2) * (height - 2)
    THEN [labels |-> out_labels, depth |-> out_depth, rand |-> r]
    ELSE LET x == 1 + (k % (width - 2))
             y == 1 + (k \div (width - 2))
             at(dx, dy) == macro_at(width, x, y, dx, dy)
             neighbour_label == [n \in 1..NumNeighbours |-> in_labels[at(neighbour_position[n].x, neighbour_position[n].y)]]
             edge == \E n \in 1..NumNeighbours : neighbour_label[n] = BACKGROUND_ID
         IN  IF in_labels[at(0, 0)] # BACKGROUND_ID /\ edge
             THEN LET neighbour == uniform_distribution(r)
                      rel_pos == neighbour_position[neighbour + 1]
                  IN  swizzle_loop(in_labels, in_depth,
                                   [out_labels EXCEPT ![at(0, 0)] = neighbour_label[neighbour + 1]],
                                   [out_depth EXCEPT ![at(0, 0)] = in_depth[in_depth_at(width, x, y, rel_pos.x, rel_pos.y)]],
                                   engine_next(r), width, height, k + 1)
             ELSE swizzle_loop(in_labels, in_depth, out_labels, out_depth, r, width, height, k + 1)

\* the images and the generator after the pass
apply_foreground_edge_swizzle(r, l, d) ==
    LET res == swizzle_loop(l.data, d.data, l.data, d.data, r, d.width, d.height, 0)
    IN  [labels |-> Image(l.width, l.height, res.labels), depth |-> Image(d.width, d.height, res.depth), rand |-> res.rand]

RECURSIVE gaussian_loop(_, _, _, _)
gaussian_loop(depth_px, r, sigma, pos) ==
    IF pos >= Len(depth_px) THEN [depth |-> depth_px, rand |-> r]
    ELSE gaussian_loop([depth_px EXCEPT ![pos + 1] = FAdd(@, gaus_distribution(r, sigma))], engine_next(r), sigma, pos + 1)

\* the standard deviation is fwtm_range_map_m / 4.29193; the unit of
\* fwtm_range_map_m is chosen so that the quotient is an integer of depth units
apply_gaussian_noise(r, l, d, normal_op) ==
    LET res == gaussian_loop(d.data, r, normal_op.fwtm_range_map_m, 0)
    IN  [labels |-> l, depth |-> Image(d.width, d.height, res.depth), rand |-> res.rand]

apply_perlin_noise(r, l, d, perlin_op, frame_no) ==
    LET s == seed_opt + frame_no
        px == [p \in 1..Len(d.data) |->
                 FAdd(d.data[p], perlin2d((p - 1) % d.width, (p - 1) \div d.width, perlin_op.freq, perlin_op.octaves, s) * perlin_op.amplitude_m)]
    IN  [labels |-> l, depth |-> Image(d.width, d.height, px), rand |-> r]

RECURSIVE noise_ops_loop(_, _, _, _, _)
noise_ops_loop(r, l, d, frame_no, n) ==
    IF n > Len(noise_ops) THEN [labels |-> l, depth |-> d, rand |-> r]
    ELSE LET op == noise_ops[n]
             res == CASE op.type = "NOISE_FOREGROUND_EDGE_SWIZZLE" -> apply_foreground_edge_swizzle(r, l, d)
                      [] op.type = "NOISE_NORMAL" -> apply_gaussian_noise(r, l, d, op)
                      [] op.type = "NOISE_PERLIN" -> apply_perlin_noise(r, l, d, op, frame_no)
         IN  noise_ops_loop(res.rand, res.labels, res.depth, frame_no, n + 1)

\* frame_add_noise: noisy_labels, noisy_depth and the generator after the
\* copy of labels and depth and the configured operations in their order
frame_add_noise(r, l, d, frame_no) == noise_ops_loop(r, l, d, frame_no, 1)

(* ------------------------------------------------------------------ *)
(* Clamp and sanity guard                                              *)
(* ------------------------------------------------------------------ *)

\* a clamp that overwrites every background depth whatever the mode
clamp_depth_overwrite(l, d) ==
    Image(d.width, d.height,
          [pos \in 1..(l.width * l.height) |->
             IF l.data[pos] = BACKGROUND_ID THEN background_depth_m ELSE d.data[pos]])

\* the depth image after clamp_depth(labels, depth)
clamp_depth(l, d) ==
    Image(d.width, d.height,
          [pos \in 1..(l.width * l.height) |->
             IF l.data[pos] = BACKGROUND_ID
             THEN IF bg_far_clamp_mode_opt
                  THEN IF FGt(d.data[pos], background_depth_m) THEN background_depth_m ELSE d.data[pos]
                  ELSE background_depth_m
             ELSE d.data[pos]])

\* a guard that tests the range of the depth only
sanity_check_pixel_fails_range_only(l, d, pos) ==
    LET depth_m == d.data[pos]
    IN  \/ isinf(depth_m)
        \/ isnan(depth_m)
        \/ FGt(depth_m, background_depth_m)

\* whether pixel pos makes sanity_check_frame call exit(1)
sanity_check_pixel_fails(l, d, pos) ==
    LET depth_m == d.data[pos]
    IN  \/ isinf(depth_m)
        \/ isnan(depth_m)
        \/ FGt(depth_m, background_depth_m)
        \/ (~bg_far_clamp_mode_opt /\ l.data[pos] = BACKGROUND_ID /\ FNe(depth_m, background_depth_m))
        \/ (l.data[pos] # BACKGROUND_ID /\ FEq(depth_m, background_depth_m))

\* a guard that lets every frame pass
sanity_check_frame_passes(l, d) == TRUE

\* sanity_check_frame returns (TRUE) or calls exit(1) (FALSE)
sanity_check_frame(l, d) == \A pos \in 1..(l.width * l.height) : ~sanity_check_pixel_fails(l, d, pos)

(* ------------------------------------------------------------------ *)
(* Files of the output tree                                            *)
(* ------------------------------------------------------------------ *)

\* output paths without the -flipped suffix
FileName_unsuffixed(kind, dir, path, flipped) == [kind |-> kind, dir |-> dir, path |-> path, flipped |-> FALSE]

\* the path of an output file: <top_out_dir>/labels/<dir>/<path>.png and so on
FileName(kind, dir, path, flipped) == [kind |-> kind, dir |-> dir, path |-> path, flipped |-> flipped]

MetaName == FileName("meta", "", 0, FALSE)

\* what a file holds: its bytes, the source frame, the variant and the state
\* of the generator its noise started from, and the run that wrote it
FileOf(name, data, frame_no, r, n) == [name |-> name, data |-> data, frame_no |-> frame_no, rand |-> r, run |-> n]

\* stat(filename, &st) != -1
file_exists(name) == \E f \in files : f.name = name

\* a write that creates the file or replaces what it held
write_file(name, data, frame_no, r) == {f \in files : f.name # name} \cup {FileOf(name, data, frame_no, r, run)}

\* save_frame_labels: the file is written only if it does not exist
save_frame_labels(dir, path, flipped, l, frame_no, r) ==
    IF ~file_exists(FileName("png", dir, path, flipped))
    THEN write_file(FileName("png", dir, path, flipped), l.data, frame_no, r)
    ELSE files

\* a save_frame_depth that tests for the label file instead of the depth file
save_frame_depth_by_labels(dir, path, flipped, d, frame_no, r) ==
    IF file_exists(FileName("png", dir, path, flipped))
    THEN files
    ELSE write_file(FileName(IF write_pfm_depth THEN "pfm" ELSE "exr", dir, path, flipped), d.data, frame_no, r)

\* save_frame_depth: the PFM or the EXR file is written only if it does not exist
save_frame_depth(dir, path, flipped, d, frame_no, r) ==
    IF write_pfm_depth
    THEN IF file_exists(FileName("pfm", dir, path, flipped))
         THEN files
         ELSE write_file(FileName("pfm", dir, path, flipped), d.data, frame_no, r)
    ELSE IF file_exists(FileName("exr", dir, path, flipped))
         THEN files
         ELSE write_file(FileName("exr", dir, path, flipped), d.data, frame_no, r)

(* ------------------------------------------------------------------ *)
(* Source trees and configurations                                     *)
(* ------------------------------------------------------------------ *)

NoWork == [dir |-> "", frames |-> << >>]

InputFrame(n) == [frame_no |-> n, path |-> n]

\* 3 x 3 label images: two body pixels; three body pixels; one; none
LabelsA == Image(3, 3, <<0, 0, 0,  1, 1, 0,  0, 0, 0>>)

LabelsB == Image(3, 3, <<0, 2, 0,  1, 1, 0,  0, 0, 0>>)

LabelsC == Image(3, 3, <<0, 0, 0,  0, 2, 0,  0, 0, 0>>)

LabelsE == Image(3, 3, <<0, 0, 0,  0, 0, 0,  0, 0, 0>>)

\* their depth images; the background is rendered farther than, or nearer
\* than, the background depth of 5
DepthA == Image(3, 3, <<9, 9, 9,  3, 3, 9,  9, 2, 9>>)

DepthB == Image(3, 3, <<9, 3, 9,  3, 2, 9,  9, 9, 9>>)

DepthC == Image(3, 3, <<9, 9, 9,  9, 3, 9,  9, 9, 9>>)

DepthE == Image(3, 3, <<9, 9, 9,  9, 9, 9,  9, 9, 9>>)

\* a depth image of B with a body pixel at infinity
DepthBInf == Image(3, 3, <<9, 3, 9,  PosInf, 2, 9,  9, 9, 9>>)

\* two directories: frames 0..2 (the second identical to the first) and
\* frames 3..4 (the second too small); frame 2 has no sidecar
TreeGood ==
    [queue |-> << [dir |-> "a", frames |-> <<InputFrame(0), InputFrame(1), InputFrame(2)>>],
                  [dir |-> "b", frames |-> <<InputFrame(3), InputFrame(4)>>] >>,
     labels |-> <<LabelsA, LabelsA, LabelsB, LabelsB, LabelsC>>,
     depth |-> <<DepthA, DepthA, DepthB, DepthB, DepthC>>,
     json |-> <<TRUE, TRUE, FALSE, TRUE, TRUE>>,
     unreadable_labels |-> {}, unreadable_depth |-> {}]

\* two directories; frame 1 has a body pixel at infinite depth, frame 3 is empty
TreeBad ==
    [queue |-> << [dir |-> "a", frames |-> <<InputFrame(0), InputFrame(1)>>],
                  [dir |-> "b", frames |-> <<InputFrame(2), InputFrame(3)>>] >>,
     labels |-> <<LabelsA, LabelsB, LabelsB, LabelsE>>,
     depth |-> <<DepthA, DepthBInf, DepthB, DepthE>>,
     json |-> <<TRUE, TRUE, TRUE, TRUE>>,
     unreadable_labels |-> {}, unreadable_depth |-> {}]

\* one directory of three identical frames and one of a single frame
TreeSame ==
    [queue |-> << [dir |-> "a", frames |-> <<InputFrame(0), InputFrame(1), InputFrame(2)>>],
                  [dir |-> "b", frames |-> <<InputFrame(3)>>] >>,
     labels |-> <<LabelsB, LabelsB, LabelsB, LabelsA>>,
     depth |-> <<DepthB, DepthB, DepthB, DepthA>>,
     json |-> <<TRUE, FALSE, TRUE, TRUE>>,
     unreadable_labels |-> {}, unreadable_depth |-> {}]

\* two directories that start with a frame of one body pixel and with a
\* frame of none
TreeEmptyFirst ==
    [queue |-> << [dir |-> "a", frames |-> <<InputFrame(0)>>],
                  [dir |-> "b", frames |-> <<InputFrame(1), InputFrame(2)>>] >>,
     labels |-> <<LabelsC, LabelsE, LabelsA>>,
     depth |-> <<DepthC, DepthE, DepthA>>,
     json |-> <<TRUE, FALSE, TRUE>>,
     unreadable_labels |-> {}, unreadable_depth |-> {}]

\* two directories: the label file of frame 1 and the depth file of frame 2
\* cannot be decoded
TreeUnreadable ==
    [queue |-> << [dir |-> "a", frames |-> <<InputFrame(0), InputFrame(1)>>],
                  [dir |-> "b", frames |-> <<InputFrame(2)>>] >>,
     labels |-> <<LabelsA, LabelsB, LabelsC>>,
     depth |-> <<DepthA, DepthB, DepthC>>,
     json |-> <<TRUE, TRUE, TRUE>>,
     unreadable_labels |-> {1}, unreadable_depth |-> {2}]

\* the swap table: labels 1 and 2 are each other's opposite
SwapTable == [l \in 0..3 |-> IF l = 1 THEN 2 ELSE IF l = 2 THEN 1 ELSE l]

Swizzle == [type |-> "NOISE_FOREGROUND_EDGE_SWIZZLE"]

Gaussian(fwtm) == [type |-> "NOISE_NORMAL", fwtm_range_map_m |-> fwtm]

Perlin(freq, octaves, amplitude) == [type |-> "NOISE_PERLIN", freq |-> freq, octaves |-> octaves, amplitude_m |-> amplitude]

\* main's defaults, in the model's units: background depth 5, bodies of at
\* least 2 pixels, a change of at least 0.1 percent
Defaults ==
    [seed |-> 0, no_flip |-> FALSE, far |-> FALSE, pfm |-> FALSE, ops |-> << >>,
     bg |-> 5, min_body |-> 2, change |-> [num |-> 1, den |-> 10], budget |-> UINT64_MAX,
     tree |-> TreeGood]

\* the options and source trees the pipeline is run with
Scenarios ==
    { Defaults,
      [Defaults EXCEPT !.seed = 1, !.ops = <<Swizzle, Gaussian(1), Perlin(1, 1, 1)>>],
      [Defaults EXCEPT !.ops = <<Gaussian(2)>>],
      [Defaults EXCEPT !.no_flip = TRUE, !.far = TRUE, !.pfm = TRUE, !.ops = <<Swizzle>>],
      [Defaults EXCEPT !.budget = 3],
      [Defaults EXCEPT !.budget = 2, !.no_flip = TRUE],
      [Defaults EXCEPT !.tree = TreeBad],
      [Defaults EXCEPT !.tree = TreeSame],
      [Defaults EXCEPT !.tree = TreeSame, !.change = [num |-> 0, den |-> 1], !.min_body = 0],
      [Defaults EXCEPT !.tree = TreeEmptyFirst],
      [Defaults EXCEPT !.tree = TreeUnreadable, !.min_body = 1] }

(* ------------------------------------------------------------------ *)
(* Initial states                                                      *)
(* ------------------------------------------------------------------ *)

MainThread == NumWorkers

Dirs == {"a", "b"}

NoTest == [kind |-> "none"]

\* the options as main leaves them for scenario sc
Configured(sc) ==
    /\ seed_opt = sc.seed
    /\ no_flip_opt = sc.no_flip
    /\ bg_far_clamp_mode_opt = sc.far
    /\ write_pfm_depth = sc.pfm
    /\ noise_ops = sc.ops
    /\ background_depth_m = sc.bg
    /\ min_body_size_px = sc.min_body
    /\ min_body_change_percent = sc.change
    /\ max_frame_count = sc.budget
    /\ src_tree = sc.tree

\* the process right after directory_recurse has queued the work units of
\* tree: no worker exists yet
Started(tree) ==
    /\ work_queue = tree.queue
    /\ work_queue_lock = << >>
    /\ frame_count = 0
    /\ finished = FALSE
    /\ exit_code = << >>
    /\ main_pc = "meta"
    /\ main_i = 0
    /\ pc = [w \in Workers |-> "idle"]
    /\ work = [w \in Workers |-> NoWork]
    /\ i = [w \in Workers |-> 0]
    /\ prev_frame_labels = [w \in Workers |-> NULL]
    /\ labels = [w \in Workers |-> NULL]
    /\ depth = [w \in Workers |-> NULL]
    /\ noisy_labels = [w \in Workers |-> NULL]
    /\ noisy_depth = [w \in Workers |-> NULL]
    /\ rand_generator = [w \in Workers |-> seed(1)]
    /\ rand_at_noise = [w \in Workers |-> seed(1)]
    /\ popped = [d \in Dirs |-> << >>]
    /\ unit_log = [d \in Dirs |-> << >>]
    /\ label_heap = NoLabelImages

Init ==
    /\ \E sc \in Scenarios : Configured(sc)
    /\ left_to_right_map = SwapTable
    /\ Started(src_tree)
    /\ files = {}
    /\ run = 1
    /\ t_pc = "none"
    /\ t_in = NoTest
    /\ t_out = NoTest

(* ------------------------------------------------------------------ *)
(* worker_thread_cb                                                    *)
(* ------------------------------------------------------------------ *)

Running == exit_code = << >>

CurFrame(w) == work[w].frames[i[w] + 1]

\* the unit's log gets an event of frame i with, as read at this step, whether
\* the counter has reached the budget and whether finished is set
Log(w, ev) ==
    [unit_log EXCEPT ![work[w].dir] =
        Append(@, [worker |-> w, i |-> i[w], ev |-> ev, reached |-> frame_count >= max_frame_count, finished |-> finished])]

\* the for loop's i++ and test
NextFramePc(w) == IF i[w] + 1 < Len(work[w].frames) THEN "load" ELSE "unit_end"

\* a pop that leaves the unit in the queue
queue_pop_kept(q) == q

\* the queue after work_queue.front() and work_queue.pop()
queue_pop(q) == Tail(q)

\* pthread_mutex_lock(&work_queue_lock)
Lock(w) ==
    /\ Running
    /\ pc[w] = "lock"
    /\ work_queue_lock = << >>
    /\ work_queue_lock' = <<w>>
    /\ pc' = [pc EXCEPT ![w] = "pop"]
    /\ UNCHANGED <<cfgVars, work_queue, frame_count, finished, files, exit_code, mainVars, localVars, histVars, testVars>>

\* a lock that stays held
mutex_held(lock) == lock

\* pthread_mutex_unlock(&work_queue_lock)
mutex_unlock(lock) == << >>

\* the critical section: the front unit is taken, or the worker ends; either
\* way the lock is released
Pop(w) ==
    /\ Running
    /\ pc[w] = "pop"
    /\ work_queue_lock' = IF work_queue # << >> THEN << >> ELSE mutex_unlock(work_queue_lock)
    /\ IF work_queue # << >>
       THEN /\ work' = [work EXCEPT ![w] = Head(work_queue)]
            /\ work_queue' = queue_pop(work_queue)
            /\ popped' = [popped EXCEPT ![Head(work_queue).dir] = Append(@, w)]
            /\ i' = [i EXCEPT ![w] = 0]
            /\ prev_frame_labels' = [prev_frame_labels EXCEPT ![w] = NULL]
            /\ pc' = [pc EXCEPT ![w] = "load"]
       ELSE /\ pc' = [pc EXCEPT ![w] = "done"]
            /\ UNCHANGED <<work, work_queue, popped, i, prev_frame_labels>>
    /\ UNCHANGED <<cfgVars, frame_count, finished, files, exit_code, mainVars, labels, depth, noisy_labels, noisy_depth, rand_generator, unit_log, run, rand_at_noise, label_heap, testVars>>

\* a skip that falls through to the budget test
skip_falls_through(w) == "budget"

\* free_image(labels); continue;
skip_continue(w) == NextFramePc(w)

\* iu_read_png_from_file returns SUCCESS for the label file of frame fr
labels_readable(fr) == fr.frame_no \notin src_tree.unreadable_labels

\* iu_read_exr_from_file returns SUCCESS for the depth file of frame fr
depth_readable(fr) == fr.frame_no \notin src_tree.unreadable_depth

\* load_frame_labels, whose exit(1) on an undecodable file ends the process,
\* and the filter: a skipped frame is freed and the loop continues
Load(w) ==
    /\ Running
    /\ pc[w] = "load"
    /\ IF ~labels_readable(CurFrame(w))
       THEN /\ exit_code' = <<1>>
            /\ UNCHANGED <<labels, pc, unit_log, i, label_heap>>
       ELSE LET l == src_tree.labels[CurFrame(w).frame_no + 1]
                decision == filter_frame(l, prev_frame_labels[w])
                loaded == alloc_labels(label_heap, CurFrame(w).frame_no)
            IN  /\ exit_code' = exit_code
                /\ IF decision = "retain"
                   THEN /\ labels' = [labels EXCEPT ![w] = l]
                        /\ label_heap' = loaded
                        /\ pc' = [pc EXCEPT ![w] = "budget"]
                        /\ unit_log' = Log(w, "begin")
                        /\ i' = i
                   ELSE /\ labels' = [labels EXCEPT ![w] = NULL]
                        /\ label_heap' = free_image(loaded, CurFrame(w).frame_no)
                        /\ pc' = [pc EXCEPT ![w] = skip_continue(w)]
                        /\ unit_log' = Log(w, decision)
                        /\ i' = [i EXCEPT ![w] = @ + 1]
    /\ UNCHANGED <<cfgVars, work_queue, work_queue_lock, frame_count, finished, files, mainVars, work, prev_frame_labels, depth, noisy_labels, noisy_depth, rand_generator, popped, run, rand_at_noise, testVars>>

\* a budget test that lets the counter get past the budget
budget_reached_strict(count) == count > max_frame_count

\* a budget test that lets one more frame through
budget_reached_late(count) == count - 2 >= max_frame_count

\* frame_count >= max_frame_count
budget_reached(count) == count >= max_frame_count

\* a budget test that breaks out of the unit without setting the flag
budget_leaves_finished == finished

\* finished = true
budget_sets_finished == TRUE

\* if (frame_count >= max_frame_count) { finished = true; break; }
Budget(w) ==
    /\ Running
    /\ pc[w] = "budget"
    /\ IF budget_reached(frame_count)
       THEN /\ finished' = budget_sets_finished
            /\ pc' = [pc EXCEPT ![w] = "unit_end"]
            /\ unit_log' = Log(w, "stop")
       ELSE /\ finished' = finished
            /\ pc' = [pc EXCEPT ![w] = "incr"]
            /\ unit_log' = unit_log
    /\ UNCHANGED <<cfgVars, work_queue, work_queue_lock, frame_count, files, exit_code, mainVars, localVars, popped, run, rand_at_noise, label_heap, testVars>>

\* one output frame number for both variants of a frame
out_frame_no_shared(frame_no, flipped) == frame_no * 2

\* int out_frame_no = frame.frame_no * 2; out_frame_no = frame.frame_no * 2 + 1
\* for the flipped variant
out_frame_no(frame_no, flipped) == IF flipped THEN frame_no * 2 + 1 ELSE frame_no * 2

\* a generator that is never reseeded
seed_generator_kept(old, s) == old

\* state->rand_generator.seed(seed_opt + out_frame_no)
seed_generator(old, s) == seed(s)

\* a counter that counts input frames
frame_count_plus_one(count) == count + 1

\* frame_count += 2
frame_count_plus_two(count) == count + 2

\* frame_count += 2; the frame becomes the filter's reference; its depth is
\* loaded, and load_frame_depth's exit(1) on an undecodable file ends the
\* process; the generator is seeded for the unflipped variant
Incr(w) ==
    /\ Running
    /\ pc[w] = "incr"
    /\ frame_count' = frame_count_plus_two(frame_count)
    /\ prev_frame_labels' = [prev_frame_labels EXCEPT ![w] = labels[w]]
    /\ label_heap' = [free_prev(label_heap, w) EXCEPT !.prev[w] = CurFrame(w).frame_no]
    /\ IF ~depth_readable(CurFrame(w))
       THEN /\ exit_code' = <<1>>
            /\ UNCHANGED <<depth, rand_generator, pc>>
       ELSE /\ exit_code' = exit_code
            /\ depth' = [depth EXCEPT ![w] = src_tree.depth[CurFrame(w).frame_no + 1]]
            /\ rand_generator' = [rand_generator EXCEPT ![w] = seed_generator(@, seed_opt + out_frame_no(CurFrame(w).frame_no, FALSE))]
            /\ pc' = [pc EXCEPT ![w] = "noise"]
    /\ UNCHANGED <<cfgVars, work_queue, work_queue_lock, finished, files, mainVars, work, i, labels, noisy_labels, noisy_depth, popped, unit_log, run, rand_at_noise, testVars>>

\* frame_add_noise, clamp_depth and sanity_check_frame for the variant built
\* from images l and d with output frame number frame_no; the guard's
\* exit(1) ends the process
NoiseStep(w, l, d, frame_no, next) ==
    LET res == frame_add_noise(rand_generator[w], l, d, frame_no)
        clamped == clamp_depth(res.labels, res.depth)
    IN  /\ noisy_labels' = [noisy_labels EXCEPT ![w] = res.labels]
        /\ noisy_depth' = [noisy_depth EXCEPT ![w] = clamped]
        /\ rand_generator' = [rand_generator EXCEPT ![w] = res.rand]
        /\ rand_at_noise' = [rand_at_noise EXCEPT ![w] = rand_generator[w]]
        /\ IF sanity_check_frame(res.labels, clamped)
           THEN /\ pc' = [pc EXCEPT ![w] = next]
                /\ exit_code' = exit_code
           ELSE /\ pc' = pc
                /\ exit_code' = <<1>>

\* a noise step that works on the loaded image itself
noise_source_overwritten(img, noisy) == noisy

\* the image frame_add_noise was given, after the call: it is a const
\* argument that is copied into the noisy image, and only the copy is changed
noise_source(img, noisy) == img

\* the unflipped variant: noise on copies of the loaded images
Noise(w) ==
    /\ Running
    /\ pc[w] = "noise"
    /\ NoiseStep(w, labels[w], depth[w], out_frame_no(CurFrame(w).frame_no, FALSE), "save_labels")
    /\ labels' = [labels EXCEPT ![w] = noise_source(@, noisy_labels'[w])]
    /\ depth' = [depth EXCEPT ![w] = noise_source(@, noisy_depth'[w])]
    /\ UNCHANGED <<cfgVars, work_queue, work_queue_lock, frame_count, finished, files, mainVars, work, i, prev_frame_labels, popped, unit_log, run, label_heap, testVars>>

SaveLabels(w) ==
    /\ Running
    /\ pc[w] = "save_labels"
    /\ files' = save_frame_labels(work[w].dir, CurFrame(w).path, FALSE, noisy_labels[w], CurFrame(w).frame_no, rand_at_noise[w])
    /\ pc' = [pc EXCEPT ![w] = "save_depth"]
    /\ UNCHANGED <<cfgVars, work_queue, work_queue_lock, frame_count, finished, exit_code, mainVars, localVars, histVars, testVars>>

SaveDepth(w) ==
    /\ Running
    /\ pc[w] = "save_depth"
    /\ files' = save_frame_depth(work[w].dir, CurFrame(w).path, FALSE, noisy_depth[w], CurFrame(w).frame_no, rand_at_noise[w])
    /\ pc' = [pc EXCEPT ![w] = IF no_flip_opt THEN "json" ELSE "noise_flipped"]
    /\ UNCHANGED <<cfgVars, work_queue, work_queue_lock, frame_count, finished, exit_code, mainVars, localVars, histVars, testVars>>

\* the flipped variant: flipped from the frame's own images, noise with
\* output frame number 2 * frame_no + 1
NoiseFlipped(w) ==
    /\ Running
    /\ pc[w] = "noise_flipped"
    /\ NoiseStep(w, flip_frame_labels(labels[w], xalloc_image(labels[w].width, labels[w].height)),
                 flip_frame_depth(depth[w], xalloc_image(labels[w].width, labels[w].height)),
                 out_frame_no(CurFrame(w).frame_no, TRUE), "save_labels_flipped")
    /\ UNCHANGED <<cfgVars, work_queue, work_queue_lock, frame_count, finished, files, mainVars, work, i, prev_frame_labels, labels, depth, popped, unit_log, run, label_heap, testVars>>

SaveLabelsFlipped(w) ==
    /\ Running
    /\ pc[w] = "save_labels_flipped"
    /\ files' = save_frame_labels(work[w].dir, CurFrame(w).path, TRUE, noisy_labels[w], CurFrame(w).frame_no, rand_at_noise[w])
    /\ pc' = [pc EXCEPT ![w] = "save_depth_flipped"]
    /\ UNCHANGED <<cfgVars, work_queue, work_queue_lock, frame_count, finished, exit_code, mainVars, localVars, histVars, testVars>>

SaveDepthFlipped(w) ==
    /\ Running
    /\ pc[w] = "save_depth_flipped"
    /\ files' = save_frame_depth(work[w].dir, CurFrame(w).path, TRUE, noisy_depth[w], CurFrame(w).frame_no, rand_at_noise[w])
    /\ pc' = [pc EXCEPT ![w] = "json"]
    /\ UNCHANGED <<cfgVars, work_queue, work_queue_lock, frame_count, finished, exit_code, mainVars, localVars, histVars, testVars>>

NoRand == seed(0)

\* the sidecar is read and, if it was read, copied with write_file, which
\* opens its destination with O_CREAT and writes whether or not it exists
Json(w) ==
    /\ Running
    /\ pc[w] = "json"
    /\ IF src_tree.json[CurFrame(w).frame_no + 1]
       THEN /\ files' = write_file(FileName("json", work[w].dir, CurFrame(w).path, FALSE), << >>, CurFrame(w).frame_no, NoRand)
            /\ IF no_flip_opt
               THEN /\ pc' = [pc EXCEPT ![w] = NextFramePc(w)]
                    /\ i' = [i EXCEPT ![w] = @ + 1]
                    /\ unit_log' = Log(w, "end")
               ELSE /\ pc' = [pc EXCEPT ![w] = "json_flipped"]
                    /\ UNCHANGED <<i, unit_log>>
       ELSE /\ files' = files
            /\ pc' = [pc EXCEPT ![w] = NextFramePc(w)]
            /\ i' = [i EXCEPT ![w] = @ + 1]
            /\ unit_log' = Log(w, "end")
    /\ UNCHANGED <<cfgVars, work_queue, work_queue_lock, frame_count, finished, exit_code, mainVars, work, prev_frame_labels, labels, depth, noisy_labels, noisy_depth, rand_generator, popped, run, rand_at_noise, label_heap, testVars>>

\* json_serialize_to_file_pretty of the sidecar with every bone's x negated
JsonFlipped(w) ==
    /\ Running
    /\ pc[w] = "json_flipped"
    /\ files' = write_file(FileName("json", work[w].dir, CurFrame(w).path, TRUE), << >>, CurFrame(w).frame_no, NoRand)
    /\ pc' = [pc EXCEPT ![w] = NextFramePc(w)]
    /\ i' = [i EXCEPT ![w] = @ + 1]
    /\ unit_log' = Log(w, "end")
    /\ UNCHANGED <<cfgVars, work_queue, work_queue_lock, frame_count, finished, exit_code, mainVars, work, prev_frame_labels, labels, depth, noisy_labels, noisy_depth, rand_generator, popped, run, rand_at_noise, label_heap, testVars>>

\* a worker that goes for the next unit whatever the flag
after_unit_ignoring(fin) == "lock"

\* if (finished) break; otherwise the next round of the unit loop
after_unit(fin) == IF fin THEN "done" ELSE "lock"

\* after the frame loop: the reference image is freed; if (finished) break
UnitEnd(w) ==
    /\ Running
    /\ pc[w] = "unit_end"
    /\ prev_frame_labels' = [prev_frame_labels EXCEPT ![w] = NULL]
    /\ label_heap' = [free_prev(label_heap, w) EXCEPT !.prev[w] = -1]
    /\ pc' = [pc EXCEPT ![w] = after_unit(finished)]
    /\ UNCHANGED <<cfgVars, sharedVars, mainVars, work, i, labels, depth, noisy_labels, noisy_depth, rand_generator, popped, unit_log, run, rand_at_noise, testVars>>

Worker(w) ==
    \/ Lock(w)
    \/ Pop(w)
    \/ Load(w)
    \/ Budget(w)
    \/ Incr(w)
    \/ Noise(w)
    \/ SaveLabels(w)
    \/ SaveDepth(w)
    \/ NoiseFlipped(w)
    \/ SaveLabelsFlipped(w)
    \/ SaveDepthFlipped(w)
    \/ Json(w)
    \/ JsonFlipped(w)
    \/ UnitEnd(w)

(* ------------------------------------------------------------------ *)
(* main                                                                *)
(* ------------------------------------------------------------------ *)

\* meta.json is serialized to the output directory
MainMeta ==
    /\ Running
    /\ main_pc = "meta"
    /\ files' = write_file(MetaName, << >>, 0, NoRand)
    /\ main_pc' = "spawn"
    /\ main_i' = 0
    /\ UNCHANGED <<cfgVars, work_queue, work_queue_lock, frame_count, finished, exit_code, pc, localVars, histVars, testVars>>

\* pthread_create of worker main_i
MainSpawn ==
    /\ Running
    /\ main_pc = "spawn"
    /\ main_i < NumWorkers
    /\ pc' = [pc EXCEPT ![main_i] = "lock"]
    /\ main_i' = main_i + 1
    /\ main_pc' = IF main_i + 1 < NumWorkers THEN "spawn" ELSE "mon_lock"
    /\ UNCHANGED <<cfgVars, sharedVars, localVars, histVars, testVars>>

MainMonLock ==
    /\ Running
    /\ main_pc = "mon_lock"
    /\ work_queue_lock = << >>
    /\ work_queue_lock' = <<MainThread>>
    /\ main_pc' = "mon_read"
    /\ UNCHANGED <<cfgVars, work_queue, frame_count, finished, files, exit_code, main_i, pc, localVars, histVars, testVars>>

\* n_jobs = work_queue.size() inside the critical section, then
\* if (n_jobs == 0 || finished) break; otherwise the progress line and sleep(1)
MainMonRead ==
    /\ Running
    /\ main_pc = "mon_read"
    /\ work_queue_lock' = << >>
    /\ main_pc' = IF Len(work_queue) = 0 \/ finished THEN "join" ELSE "mon_lock"
    /\ main_i' = 0
    /\ UNCHANGED <<cfgVars, work_queue, frame_count, finished, files, exit_code, pc, localVars, histVars, testVars>>

\* a join that returns whatever the thread is doing
thread_ended_or_not(w) == TRUE

\* worker_thread_cb of worker w has returned
thread_ended(w) == pc[w] = "done"

\* pthread_join of worker main_i returns once that worker has ended
MainJoin ==
    /\ Running
    /\ main_pc = "join"
    /\ main_i < NumWorkers
    /\ thread_ended(main_i)
    /\ main_i' = main_i + 1
    /\ main_pc' = IF main_i + 1 < NumWorkers THEN "join" ELSE "return"
    /\ UNCHANGED <<cfgVars, sharedVars, pc, localVars, histVars, testVars>>

\* return 0
MainReturn ==
    /\ Running
    /\ main_pc = "return"
    /\ exit_code' = <<0>>
    /\ main_pc' = "exited"
    /\ UNCHANGED <<cfgVars, work_queue, work_queue_lock, frame_count, finished, files, main_i, pc, localVars, histVars, testVars>>

Main ==
    \/ MainMeta
    \/ MainSpawn
    \/ MainMonLock
    \/ MainMonRead
    \/ MainJoin
    \/ MainReturn

Next == Main \/ \E w \in Workers : Worker(w)

Spec == Init /\ [][Next]_vars

(* ------------------------------------------------------------------ *)
(* C1: work units and frame order                                      *)
(* ------------------------------------------------------------------ *)

DropReasons == {"empty", "too small", "too similar"}

\* the log entries of a frame that is over: written out or dropped
FramesOver(log, k) == Cardinality({j \in 1..(k - 1) : log[j].ev \in DropReasons \cup {"end"}})

\* C1: every work unit is popped by at most one worker and is not in the
\* queue afterwards; every frame of it is handled by the worker that popped
\* it; and frame i is begun only when frames 0 .. i-1 of the unit are over
\* (written out or dropped), so the frames are begun in discovery order.
C1_UnitOwnedInOrder ==
    \A d \in Dirs :
        /\ Len(popped[d]) <= 1
        /\ (popped[d] # << >> => \A k \in 1..Len(work_queue) : work_queue[k].dir # d)
        /\ \A k \in 1..Len(unit_log[d]) :
              /\ popped[d] # << >>
              /\ unit_log[d][k].worker = popped[d][1]
              /\ (unit_log[d][k].ev \in DropReasons \cup {"begin"} =>
                    /\ unit_log[d][k].i = FramesOver(unit_log[d], k)
                    /\ (k > 1 => unit_log[d][k - 1].ev # "begin"))
              /\ (unit_log[d][k].ev \in {"end", "stop"} =>
                    /\ k > 1
                    /\ unit_log[d][k - 1].ev = "begin"
                    /\ unit_log[d][k - 1].i = unit_log[d][k].i)

\* two workers each own a unit and one of them has finished its first frame
\* and begun a later one
C1_Witness ==
    /\ popped["a"] # << >>
    /\ popped["b"] # << >>
    /\ popped["a"][1] # popped["b"][1]
    /\ \E k \in 1..Len(unit_log["a"]) : unit_log["a"][k].ev = "begin" /\ unit_log["a"][k].i > 0

(* ------------------------------------------------------------------ *)
(* C2, C3: the sanity guard                                            *)
(* ------------------------------------------------------------------ *)

SavePcs == {"save_labels", "save_depth", "save_labels_flipped", "save_depth_flipped"}

DepthKinds == {"exr", "pfm"}

DepthWritable(data) == \A p \in 1..Len(data) : data[p] # NaN /\ data[p] # PosInf /\ data[p] <= background_depth_m

\* C2: whenever a worker is about to hand a variant to save_frame_labels or
\* save_frame_depth, every pixel of its depth image is finite and at most
\* background_depth_m; and so is every pixel of every depth file written.
C2_WrittenDepthInRange ==
    /\ \A w \in Workers : pc[w] \in SavePcs => DepthWritable(noisy_depth[w].data)
    /\ \A f \in files : f.name.kind \in DepthKinds => DepthWritable(f.data)

\* a flipped variant whose noise moved a depth reaches the writer
C2_Witness ==
    \E w \in Workers :
        /\ pc[w] = "save_depth_flipped"
        /\ noise_ops # << >>
        /\ \E p \in 1..Len(noisy_depth[w].data) : noisy_depth[w].data[p] < background_depth_m /\ noisy_depth[w].data[p] # depth[w].data[p]
        /\ \E f \in files : f.name.kind = "exr" /\ ~f.name.flipped

\* the four conditions of the guard, on one pixel
GuardCondition(label, depth_m) ==
    \/ depth_m = NaN \/ depth_m = PosInf
    \/ depth_m > background_depth_m
    \/ (~bg_far_clamp_mode_opt /\ label = BACKGROUND_ID /\ depth_m # background_depth_m)
    \/ (label # BACKGROUND_ID /\ depth_m = background_depth_m)

\* worker w's post-clamp frame violates a guard condition
Violating(w) ==
    /\ noisy_labels[w] # NULL
    /\ \E p \in 1..Len(noisy_depth[w].data) : GuardCondition(noisy_labels[w].data[p], noisy_depth[w].data[p])

\* the label and depth files of the variant worker w is at
VariantFiles(w) ==
    {f \in files : /\ f.name.kind \in DepthKinds \cup {"png"}
                   /\ f.name.dir = work[w].dir
                   /\ f.name.path = CurFrame(w).path
                   /\ f.name.flipped = (pc[w] = "noise_flipped")}

\* C3: a worker whose post-clamp frame violates a guard condition has ended
\* the process with status 1, no label or depth file of that variant exists,
\* and once the process has ended no thread takes another step.
C3_GuardIsFatal ==
    /\ [](\A w \in Workers : Violating(w) => (exit_code = <<1>> /\ VariantFiles(w) = {}))
    /\ [][exit_code # << >> => UNCHANGED vars]_vars

\* the guard fired on a frame while another worker was inside a frame
C3_Witness ==
    \E w, v \in Workers :
        /\ w # v
        /\ Violating(w)
        /\ exit_code = <<1>>
        /\ pc[v] \in SavePcs

(* ------------------------------------------------------------------ *)
(* C4: determinism under scheduling                                    *)
(* ------------------------------------------------------------------ *)

\* a file without the number of the run that wrote it
Untagged(F) == {[name |-> f.name, data |-> f.data, frame_no |-> f.frame_no, rand |-> f.rand] : f \in F}

DepthKind == IF write_pfm_depth THEN "pfm" ELSE "exr"

\* the files one variant adds: its label and depth files
VariantOut(dir, fr, flipped, res, r0) ==
    { [name |-> FileName("png", dir, fr.path, flipped), data |-> res.labels.data, frame_no |-> fr.frame_no, rand |-> r0],
      [name |-> FileName(DepthKind, dir, fr.path, flipped), data |-> clamp_depth(res.labels, res.depth).data, frame_no |-> fr.frame_no, rand |-> r0] }

SidecarOut(dir, fr, flipped) ==
    { [name |-> FileName("json", dir, fr.path, flipped), data |-> << >>, frame_no |-> fr.frame_no, rand |-> NoRand] }

\* The run of the pipeline with a single worker, no frame budget and an empty
\* output directory, as a fold over the units in queue order and over each
\* unit's frames in order: acc.files are the files written so far, acc.ok
\* turns FALSE when the guard or a failed load ends the process.
RECURSIVE SeqFrames(_, _, _, _)
SeqFrames(unit, k, prev, acc) ==
    IF k > Len(unit.frames) \/ ~acc.ok THEN acc
    ELSE LET fr == unit.frames[k]
             l == src_tree.labels[fr.frame_no + 1]
             d == src_tree.depth[fr.frame_no + 1]
         IN  IF ~labels_readable(fr) THEN [files |-> acc.files, ok |-> FALSE]
             ELSE IF filter_frame(l, prev) # "retain" THEN SeqFrames(unit, k + 1, prev, acc)
             ELSE IF ~depth_readable(fr) THEN [files |-> acc.files, ok |-> FALSE]
             ELSE LET r0 == seed(seed_opt + 2 * fr.frame_no)
                      plain == frame_add_noise(r0, l, d, 2 * fr.frame_no)
                      plain_ok == sanity_check_frame(plain.labels, clamp_depth(plain.labels, plain.depth))
                      fl == flip_frame_labels(l, xalloc_image(l.width, l.height))
                      fd == flip_frame_depth(d, xalloc_image(l.width, l.height))
                      flipped == frame_add_noise(plain.rand, fl, fd, 2 * fr.frame_no + 1)
                      flipped_ok == sanity_check_frame(flipped.labels, clamp_depth(flipped.labels, flipped.depth))
                      sidecar == IF ~src_tree.json[fr.frame_no + 1] THEN {}
                                 ELSE SidecarOut(unit.dir, fr, FALSE) \cup (IF no_flip_opt THEN {} ELSE SidecarOut(unit.dir, fr, TRUE))
                  IN  IF ~plain_ok THEN [files |-> acc.files, ok |-> FALSE]
                      ELSE IF no_flip_opt
                           THEN SeqFrames(unit, k + 1, l, [files |-> acc.files \cup VariantOut(unit.dir, fr, FALSE, plain, r0) \cup sidecar, ok |-> TRUE])
                      ELSE IF ~flipped_ok
                           THEN [files |-> acc.files \cup VariantOut(unit.dir, fr, FALSE, plain, r0), ok |-> FALSE]
                      ELSE SeqFrames(unit, k + 1, l,
                                     [files |-> acc.files \cup VariantOut(unit.dir, fr, FALSE, plain, r0)
                                                          \cup VariantOut(unit.dir, fr, TRUE, flipped, plain.rand) \cup sidecar,
                                      ok |-> TRUE])

RECURSIVE SeqUnits(_, _)
SeqUnits(q, acc) == IF q = << >> THEN acc ELSE SeqUnits(Tail(q), SeqFrames(Head(q), 1, NULL, acc))

SeqRun == SeqUnits(src_tree.queue, [files |-> {[name |-> MetaName, data |-> << >>, frame_no |-> 0, rand |-> NoRand]}, ok |-> TRUE])

NoBudget == max_frame_count = UINT64_MAX

C5_ReseededPerVariant ==
    \A w \in Workers :
        Running =>
            /\ (pc[w] = "noise" => rand_generator[w] = seed(seed_opt + 2 * CurFrame(w).frame_no))
            /\ (pc[w] = "noise_flipped" => rand_generator[w] = seed(seed_opt + 2 * CurFrame(w).frame_no + 1))

(* ------------------------------------------------------------------ *)
(* C6, C7: running the pipeline again over its own output              *)
(* ------------------------------------------------------------------ *)

\* one directory of two frames, both retained; only the first has a sidecar
TreeOne ==
    [queue |-> << [dir |-> "a", frames |-> <<InputFrame(0), InputFrame(1)>>] >>,
     labels |-> <<LabelsA, LabelsB>>,
     depth |-> <<DepthA, DepthB>>,
     json |-> <<TRUE, FALSE>>,
     unreadable_labels |-> {}, unreadable_depth |-> {}]

ResumeScenarios ==
    { [Defaults EXCEPT !.tree = TreeOne],
      [Defaults EXCEPT !.tree = TreeOne, !.seed = 1, !.pfm = TRUE, !.ops = <<Swizzle>>] }

InitResume ==
    /\ \E sc \in ResumeScenarios : Configured(sc)
    /\ left_to_right_map = SwapTable
    /\ Started(src_tree)
    /\ files = {}
    /\ run = 1
    /\ t_pc = "none"
    /\ t_in = NoTest
    /\ t_out = NoTest

\* the process ends, by itself or interrupted at any point, and the pipeline
\* is started again with the same options over the same output directory
Restart ==
    /\ run < MaxRuns
    /\ UNCHANGED <<cfgVars, files, testVars>>
    /\ run' = run + 1
    /\ work_queue' = src_tree.queue
    /\ work_queue_lock' = << >>
    /\ frame_count' = 0
    /\ finished' = FALSE
    /\ exit_code' = << >>
    /\ main_pc' = "meta"
    /\ main_i' = 0
    /\ pc' = [w \in Workers |-> "idle"]
    /\ work' = [w \in Workers |-> NoWork]
    /\ i' = [w \in Workers |-> 0]
    /\ prev_frame_labels' = [w \in Workers |-> NULL]
    /\ labels' = [w \in Workers |-> NULL]
    /\ depth' = [w \in Workers |-> NULL]
    /\ noisy_labels' = [w \in Workers |-> NULL]
    /\ noisy_depth' = [w \in Workers |-> NULL]
    /\ rand_generator' = [w \in Workers |-> seed(1)]
    /\ rand_at_noise' = [w \in Workers |-> seed(1)]
    /\ popped' = [d \in Dirs |-> << >>]
    /\ unit_log' = [d \in Dirs |-> << >>]
    /\ label_heap' = NoLabelImages

NextResume == Next \/ Restart

SpecResume == InitResume /\ [][NextResume]_vars

\* C6: while the pipeline runs, a file that was in the output directory
\* when the run started is never written to: label, depth, sidecar and
\* meta.json files of earlier runs stay as those runs left them.
C6_ExistingFilesUntouched == [][\A f \in files : (run' = run /\ f.run < run) => f \in files']_vars

\* C7: when a run with no frame budget that started over the files left by
\* interrupted runs ends with main returning, the output directory holds
\* exactly the files, with the same bytes, of one uninterrupted run.
C7_ResumedRunSameFiles == (run > 1 /\ NoBudget /\ exit_code = <<0>>) => Untagged(files) = SeqRun.files

\* a resumed run has completed over a directory in which an earlier run had
\* left the first frame's label file but not yet its depth file
C7_Witness ==
    /\ run > 1 /\ NoBudget /\ exit_code = <<0>>
    /\ \E f, g \in files :
          /\ f.name.kind = "png" /\ g.name.kind = DepthKind
          /\ f.name.path = g.name.path /\ f.name.flipped = g.name.flipped
          /\ f.run < g.run

(* ------------------------------------------------------------------ *)
(* C8, C9: the flips as functions of an image                          *)
(* ------------------------------------------------------------------ *)

\* the pipeline part of the state while a function is applied on its own
Idle ==
    /\ Started(src_tree)
    /\ files = {}
    /\ run = 1

LabelIds == 0..2

\* the left/right swap tables: a label's opposite has the label as its
\* opposite, and a label without an opposite maps to itself
SwapTables == {m \in [LabelIds -> LabelIds] : \A l \in LabelIds : m[m[l]] = l}

DepthValues == {2, NaN, PosInf}

\* the images of at most MaxPixels pixels with values in V
TestImages(V) ==
    UNION { { Image(s[1], s[2], d) : d \in [1..(s[1] * s[2]) -> V] } :
            s \in {t \in (1..MaxPixels) \X (1..MaxPixels) : t[1] * t[2] <= MaxPixels} }

InitFlip ==
    /\ Configured(Defaults)
    /\ Idle
    /\ \/ /\ t_pc = "labels"
          /\ left_to_right_map \in SwapTables
          /\ t_in \in TestImages(LabelIds)
       \/ /\ t_pc = "depth"
          /\ left_to_right_map = SwapTable
          /\ t_in \in TestImages(DepthValues)
    /\ t_out = <<t_in>>

\* flip_frame_labels of the latest image into a freshly allocated one
FlipLabels ==
    /\ t_pc = "labels"
    /\ Len(t_out) < 3
    /\ t_out' = Append(t_out, flip_frame_labels(t_out[Len(t_out)], xalloc_image(t_in.width, t_in.height)))
    /\ UNCHANGED <<cfgVars, sharedVars, mainVars, pc, localVars, histVars, t_pc, t_in>>

\* flip_frame_depth of the latest image into a freshly allocated one
FlipDepth ==
    /\ t_pc = "depth"
    /\ Len(t_out) < 3
    /\ t_out' = Append(t_out, flip_frame_depth(t_out[Len(t_out)], xalloc_image(t_in.width, t_in.height)))
    /\ UNCHANGED <<cfgVars, sharedVars, mainVars, pc, localVars, histVars, t_pc, t_in>>

NextFlip == FlipLabels \/ FlipDepth

SpecFlip == InitFlip /\ [][NextFlip]_vars

\* C8: flip_frame_labels applied to its own result gives back the label
\* image it started from, for every width and height and every swap table.
C8_LabelFlipInvolution == (t_pc = "labels" /\ Len(t_out) = 3) => t_out[3] = t_in

\* an image of odd width with different labels at its two ends was flipped
\* twice through a table that swaps one of them, and the first flip changed it
C8_Witness ==
    /\ t_pc = "labels" /\ Len(t_out) = 3
    /\ t_in.width = 3
    /\ t_in.data[1] # t_in.data[3]
    /\ left_to_right_map[t_in.data[1]] # t_in.data[1]
    /\ t_out[2] # t_in

\* C9: flip_frame_depth applied to its own result gives back the depth
\* image it started from, and one application puts at column x of each row
\* the value the source has at column width - 1 - x, unchanged.
C9_DepthFlipInvolution ==
    t_pc = "depth" =>
        /\ (Len(t_out) = 3 => t_out[3] = t_in)
        /\ (Len(t_out) >= 2 =>
              /\ t_out[2].width = t_in.width /\ t_out[2].height = t_in.height
              /\ \A y \in 0..(t_in.height - 1) : \A x \in 0..(t_in.width - 1) :
                    t_out[2].data[y * t_in.width + x + 1] = t_in.data[y * t_in.width + (t_in.width - 1 - x) + 1])

\* a depth image of even width and two rows, with a NaN, was flipped twice
\* and the first flip changed it
C9_Witness ==
    /\ t_pc = "depth" /\ Len(t_out) = 3
    /\ t_in.width = 2 /\ t_in.height = 2
    /\ \E p \in 1..4 : t_in.data[p] = NaN
    /\ t_out[2] # t_in

(* ------------------------------------------------------------------ *)
(* C10: the frame filter over the frames of one work unit              *)
(* ------------------------------------------------------------------ *)

\* values of min_body_size_px and of min_body_change_percent
BodySizes == 0..2

Thresholds == {[num |-> 0, den |-> 1], [num |-> 1, den |-> 10], [num |-> 60, den |-> 1]}

\* label images of two pixels
FilterImages == {Image(2, 1, d) : d \in [1..2 -> LabelIds]}

\* a work unit of 1 .. MaxFrames frames has just been popped: no frame is
\* decided yet and there is no previous label image
InitFilter ==
    /\ \E b \in BodySizes, c \in Thresholds : Configured([Defaults EXCEPT !.min_body = b, !.change = c])
    /\ left_to_right_map = SwapTable
    /\ Idle
    /\ t_pc = "filter"
    /\ t_in \in UNION {[1..n -> FilterImages] : n \in 1..MaxFrames}
    /\ t_out = [decisions |-> << >>, prev |-> NULL, refs |-> << >>]

\* a reference that follows every frame, retained or not
next_prev_always(decision, l, prev) == l

\* prev_frame_labels after a frame: only a frame that is retained replaces it
next_prev(decision, l, prev) == IF decision = "retain" THEN l ELSE prev

\* one round of the frame loop with no frame budget: the next frame is
\* loaded and filtered, and a retained frame becomes the previous label
\* image; refs keeps the image each frame was compared against
FilterFrame ==
    /\ t_pc = "filter"
    /\ Len(t_out.decisions) < Len(t_in)
    /\ LET l == t_in[Len(t_out.decisions) + 1]
           decision == filter_frame(l, t_out.prev)
       IN  t_out' = [decisions |-> Append(t_out.decisions, decision),
                     prev |-> next_prev(decision, l, t_out.prev),
                     refs |-> Append(t_out.refs, t_out.prev)]
    /\ UNCHANGED <<cfgVars, sharedVars, mainVars, pc, localVars, histVars, t_pc, t_in>>

NextFilter == FilterFrame

SpecFilter == InitFilter /\ [][NextFilter]_vars

\* a frame with the label image of the frame before it was retained
IdenticalRetained ==
    \E k \in 2..Len(t_out.decisions) : t_in[k] = t_in[k - 1] /\ t_out.decisions[k] = "retain"

UnitFrames(d) == LET U == {k \in 1..Len(src_tree.queue) : src_tree.queue[k].dir = d}
                 IN  IF U = {} THEN << >> ELSE src_tree.queue[CHOOSE k \in U : TRUE].frames

\* the frames, as <<directory, path>>, that passed the filter so far
RetainedFrames ==
    UNION { { <<d, UnitFrames(d)[unit_log[d][k].i + 1].path>> : k \in {j \in 1..Len(unit_log[d]) : unit_log[d][j].ev = "begin"} } : d \in Dirs }

\* the frames of which the label file and the depth file of a variant exist
PairsWritten(flipped) ==
    { <<f.name.dir, f.name.path>> :
        f \in { g \in files : /\ g.name.kind = "png"
                              /\ g.name.flipped = flipped
                              /\ \E h \in files : /\ h.name.kind \in DepthKinds
                                                  /\ h.name.dir = g.name.dir
                                                  /\ h.name.path = g.name.path
                                                  /\ h.name.flipped = flipped } }

\* the frames of which any label or depth file of a variant exists
AnyWritten(flipped) ==
    { <<f.name.dir, f.name.path>> : f \in {g \in files : g.name.kind \in DepthKinds \cup {"png"} /\ g.name.flipped = flipped} }

\* N retained frames gave N unflipped pairs and, with mirroring, N flipped
\* pairs, and no other label or depth file
Accounted ==
    /\ PairsWritten(FALSE) = RetainedFrames
    /\ AnyWritten(FALSE) = RetainedFrames
    /\ PairsWritten(TRUE) = (IF no_flip_opt THEN {} ELSE RetainedFrames)
    /\ AnyWritten(TRUE) = (IF no_flip_opt THEN {} ELSE RetainedFrames)

InFramePcs == {"incr", "noise", "save_labels", "save_depth", "noise_flipped", "save_labels_flipped", "save_depth_flipped", "json", "json_flipped"}

\* the label and depth files of a frame that exist
FrameFiles(d, path) == {f \in files : f.name.kind \in DepthKinds \cup {"png"} /\ f.name.dir = d /\ f.name.path = path}

\* the files a worker has written of its frame once it is at position p
WrittenBefore(p) ==
    (IF p \in InFramePcs \ {"incr", "noise", "save_labels"} THEN {<<"png", FALSE>>} ELSE {})
    \cup (IF p \in InFramePcs \ {"incr", "noise", "save_labels", "save_depth"} THEN {<<DepthKind, FALSE>>} ELSE {})
    \cup (IF p \in {"save_depth_flipped", "json", "json_flipped"} /\ ~no_flip_opt THEN {<<"png", TRUE>>} ELSE {})
    \cup (IF p \in {"json", "json_flipped"} /\ ~no_flip_opt THEN {<<DepthKind, TRUE>>} ELSE {})

\* all label and depth files of a frame, for the variants that are enabled
AllVariants == {<<"png", FALSE>>, <<DepthKind, FALSE>>} \cup (IF no_flip_opt THEN {} ELSE {<<"png", TRUE>>, <<DepthKind, TRUE>>})

Kinds(F) == {<<f.name.kind, f.name.flipped>> : f \in F}

\* a frame that began when the counter had reached the budget is stopped and
\* has no file; a frame that passed the budget test has, at every position
\* of its worker, the files of the steps before, and all of them once it ended
BudgetDecides ==
    \A d \in Dirs : \A k \in 1..Len(unit_log[d]) :
        LET e == unit_log[d][k]
            path == UnitFrames(d)[e.i + 1].path
            last == k = Len(unit_log[d])
        IN  e.ev = "begin" =>
              /\ e.reached => /\ FrameFiles(d, path) = {}
                              /\ (last /\ Running => pc[e.worker] = "budget")
                              /\ (~last => unit_log[d][k + 1].ev = "stop")
              /\ (~last /\ unit_log[d][k + 1].ev = "end") => Kinds(FrameFiles(d, path)) = AllVariants
              /\ (~last /\ unit_log[d][k + 1].ev = "stop") => FrameFiles(d, path) = {}
              /\ (last /\ pc[e.worker] \in InFramePcs) => Kinds(FrameFiles(d, path)) = WrittenBefore(pc[e.worker])

\* a worker inside a frame leaves it only from the frame's last step
LeavesAtFrameEnd == \A w \in Workers : (pc[w] \in InFramePcs /\ pc'[w] \notin InFramePcs) => pc[w] \in {"json", "json_flipped"}

OutputFrames == {f \in files : f.name.kind = "png"}

\* C14: neither the shared frame counter nor the number of output frames
\* written ever exceeds max_frame_count.
C14_BudgetNeverExceeded ==
    /\ frame_count <= max_frame_count
    /\ Cardinality(OutputFrames) <= max_frame_count

(* ------------------------------------------------------------------ *)
(* C15: the finished flag                                              *)
(* ------------------------------------------------------------------ *)

\* runs with a frame budget: one that a later budget test finds reached and
\* one that the last frame of the tree reaches
BudgetScenarios ==
    { [Defaults EXCEPT !.tree = TreeOne, !.budget = 2],
      [Defaults EXCEPT !.tree = TreeOne, !.budget = 4] }

InitBudget ==
    /\ \E sc \in BudgetScenarios : Configured(sc)
    /\ left_to_right_map = SwapTable
    /\ Idle
    /\ t_pc = "none"
    /\ t_in = NoTest
    /\ t_out = NoTest

\* threads get to run: while some thread can take a step one is taken, and a
\* worker at the budget test eventually executes it
SpecBudget == InitBudget /\ [][Next]_vars /\ WF_vars(Next) /\ \A w \in Workers : WF_vars(Budget(w))

NoWriteAfterFinished ==
    \A d \in Dirs : \A k \in 1..Len(unit_log[d]) :
        (unit_log[d][k].ev = "begin" /\ unit_log[d][k].finished) =>
            /\ FrameFiles(d, UnitFrames(d)[unit_log[d][k].i + 1].path) = {}
            /\ (k < Len(unit_log[d]) => unit_log[d][k + 1].ev = "stop")
            /\ (k = Len(unit_log[d]) /\ Running => pc[unit_log[d][k].worker] = "budget")

\* C16 as stated: once finished is true no unit is removed from the queue,
\* and no frame that begins afterwards is written.
C16_NoPopOnceFinished ==
    /\ [][finished => work_queue' = work_queue]_vars
    /\ []NoWriteAfterFinished

\* C16 amended: a worker that reads finished as true at the end of a unit
\* ends without going back to the queue, and no frame that begins once
\* finished is true is written.
C16_NoPopOnceFinishedObserved ==
    /\ [][\A w \in Workers : (finished /\ pc[w] = "unit_end") => pc'[w] \in {"unit_end", "done"}]_vars
    /\ []NoWriteAfterFinished

\* a worker ended on reading finished, and a unit popped after finished was
\* set has had its first frame stopped at the budget test
C16_Witness ==
    /\ finished
    /\ \E w \in Workers : pc[w] = "done" /\ work[w] # NoWork
    /\ \E d \in Dirs : /\ Len(unit_log[d]) >= 2
                        /\ unit_log[d][1].finished
                        /\ unit_log[d][1].ev = "begin"
                        /\ unit_log[d][2].ev = "stop"

(* ------------------------------------------------------------------ *)
(* C17: what a frame is compared against                               *)
(* ------------------------------------------------------------------ *)

\* the last frame before frame k that was retained
LastRetained(k) == CHOOSE j \in 1..(k - 1) : /\ t_out.decisions[j] = "retain"
                                            /\ \A m \in (j + 1)..(k - 1) : t_out.decisions[m] # "retain"

\* C17 as stated: every frame after the first is compared against the frame
\* just before it in the unit, whether that frame was retained or dropped.
C17_ComparedWithPredecessor ==
    t_pc = "filter" => \A k \in 2..Len(t_out.refs) : t_out.refs[k] = t_in[k - 1]

\* C17 amended: every frame after the first is compared against the last
\* frame before it that was retained, which is the frame just before it
\* only if that one was retained.
C17_ComparedWithLastRetained ==
    t_pc = "filter" => \A k \in 2..Len(t_out.refs) :
        /\ \E j \in 1..(k - 1) : t_out.decisions[j] = "retain"
        /\ t_out.refs[k] = t_in[LastRetained(k)]

\* the second frame differs from the first and was dropped, and the third
\* was compared against the first
C17_Witness ==
    /\ t_pc = "filter"
    /\ Len(t_out.refs) = 3
    /\ t_in[2] # t_in[1]
    /\ t_out.decisions[2] \in DropReasons
    /\ t_out.refs[3] = t_in[1]
    /\ t_out.decisions[3] = "retain"

(* ------------------------------------------------------------------ *)
(* C18: frames whose output is skipped                                 *)
(* ------------------------------------------------------------------ *)

\* the frame worker w is in is soft-skipped at output time: the label file
\* of its unflipped variant is there already, or it has no sidecar
SoftSkipped(w) ==
    \/ \E f \in files : /\ f.name.kind = "png"
                        /\ f.name.dir = work[w].dir
                        /\ f.name.path = CurFrame(w).path
                        /\ ~f.name.flipped
    \/ ~src_tree.json[CurFrame(w).frame_no + 1]

\* C18: the step of a worker past the budget test of a frame whose
\* destination exists already, or whose sidecar is missing, leaves the
\* shared frame counter as it is.
C18_SoftSkipNotCounted ==
    [][\A w \in Workers : (pc[w] = "incr" /\ pc'[w] = "noise" /\ SoftSkipped(w)) => frame_count' = frame_count]_vars

(* ------------------------------------------------------------------ *)
(* C19: frames dropped by the filter                                   *)
(* ------------------------------------------------------------------ *)

\* the step that drops worker w's frame: from the load it goes to the next i
DropStep(w) == pc[w] = "load" /\ i'[w] = i[w] + 1

\* a dropped frame has exactly one event in its unit's log, and no label or
\* depth file of it exists
DroppedUnwritten ==
    \A d \in Dirs : \A k \in 1..Len(unit_log[d]) :
        unit_log[d][k].ev \in DropReasons =>
            /\ FrameFiles(d, UnitFrames(d)[unit_log[d][k].i + 1].path) = {}
            /\ \A j \in 1..Len(unit_log[d]) : unit_log[d][j].i = unit_log[d][k].i => j = k

\* C19: the step that drops a frame leaves the frame counter, the previous
\* label image and the output tree as they are, logs one skip reason and
\* takes the worker to the next frame of the unit, or to the end of the unit
\* after the last frame; and no file of a dropped frame is ever written.
C19_DroppedFrameLeavesNoTrace ==
    /\ []DroppedUnwritten
    /\ [][\A w \in Workers : DropStep(w) =>
              /\ frame_count' = frame_count
              /\ prev_frame_labels' = prev_frame_labels
              /\ files' = files
              /\ Len(unit_log'[work[w].dir]) = Len(unit_log[work[w].dir]) + 1
              /\ unit_log'[work[w].dir][Len(unit_log'[work[w].dir])].ev \in DropReasons
              /\ pc'[w] = (IF i[w] + 1 < Len(work[w].frames) THEN "load" ELSE "unit_end")]_vars

\* of three frames only the second was dropped, as too similar, and the
\* run ended with the files of the first and the third, flipped and not
C19_Witness ==
    /\ exit_code = <<0>>
    /\ src_tree = TreeGood /\ ~no_flip_opt /\ NoBudget
    /\ \E k \in 1..Len(unit_log["a"]) : unit_log["a"][k].ev = "too similar" /\ unit_log["a"][k].i = 1
    /\ {p \in AnyWritten(FALSE) : p[1] = "a"} = {<<"a", 0>>, <<"a", 2>>}
    /\ {p \in PairsWritten(TRUE) : p[1] = "a"} = {<<"a", 0>>, <<"a", 2>>}

(* ------------------------------------------------------------------ *)
(* C20                                                                 *)
(* ------------------------------------------------------------------ *)

\* worker w stands at a frame whose label file, or whose depth file, cannot
\* be decoded
AtUnreadable(w) ==
    /\ work[w] # NoWork
    /\ i[w] < Len(work[w].frames)
    /\ \/ pc[w] = "load" /\ ~labels_readable(CurFrame(w))
       \/ pc[w] = "incr" /\ ~depth_readable(CurFrame(w))

\* C20 as stated: once workers are running, the sanity guard is the only
\* thing that ends the process abnormally -- whenever the process has exited
\* with status 1, some worker's post-clamp frame violates a guard condition --
\* and a guard failure ends the whole process: after it no worker, and not
\* main, takes another step.
C20_OnlyGuardEndsProcess ==
    /\ [](exit_code = <<1>> => \E w \in Workers : Violating(w))
    /\ [][exit_code = <<1>> => UNCHANGED vars]_vars

\* the process has exited with status 1 at an undecodable input while no
\* worker's frame violates the guard
ExitWithoutGuard ==
    /\ exit_code = <<1>>
    /\ \E w \in Workers : AtUnreadable(w)
    /\ \A w \in Workers : ~Violating(w)

(* ------------------------------------------------------------------ *)
(* C21: termination                                                    *)
(* ------------------------------------------------------------------ *)

\* fair scheduling: main and every worker thread get to run, and a worker
\* waiting for the queue's mutex, which main takes and releases over and over,
\* eventually gets it
SpecFair ==
    /\ InitBudget
    /\ [][Next]_vars
    /\ WF_vars(Main)
    /\ \A w \in Workers : SF_vars(Worker(w))

AllEnded == \A w \in Workers : pc[w] = "done"

JsonNoise(type, fwtm_range_map_m, freq, octaves, amplitude_m) ==
    [type |-> type, fwtm_range_map_m |-> fwtm_range_map_m, freq |-> freq, octaves |-> octaves, amplitude_m |-> amplitude_m]

NoiseEntries ==
    { JsonNoise(<< >>, << >>, << >>, << >>, << >>),
      JsonNoise(<<"blur">>, << >>, << >>, << >>, << >>),
      JsonNoise(<<"foreground-edge-swizzle">>, << >>, << >>, << >>, << >>),
      JsonNoise(<<"gaussian">>, <<1>>, << >>, << >>, << >>),
      JsonNoise(<<"gaussian">>, << >>, << >>, << >>, << >>),
      JsonNoise(<<"perlin">>, << >>, <<1>>, <<2>>, <<1>>),
      JsonNoise(<<"perlin">>, << >>, <<1>>, << >>, <<1>>),
      JsonNoise(<<"perlin">>, << >>, << >>, <<2>>, <<1>>),
      JsonNoise(<<"perlin">>, << >>, <<1>>, <<2>>, << >>) }

NoiseArrays == UNION { [1..n -> NoiseEntries] : n \in 0..MaxNoiseOps }

\* the file named by --config: one json_parse_file rejects, or one with a
\* "noise" array
ConfigFiles == { [parses |-> FALSE, noise |-> << >>] } \cup { [parses |-> TRUE, noise |-> a] : a \in NoiseArrays }

\* the command line: --pfm, --full, whether the label map file can be loaded,
\* and --config
CommandLines ==
    [kind : {"setup"}, pfm : BOOLEAN, full : BOOLEAN, label_map : BOOLEAN,
     config : { << >> } \cup { <<c>> : c \in ConfigFiles }]

NoOp == [type |-> "none"]

\* a parser that takes a gaussian entry without fwtm_range_map_m as one of
\* range 0
parse_noise_op_lenient(js) ==
    IF js.type = << >> THEN [ok |-> FALSE, op |-> NoOp]
    ELSE IF js.type[1] = "foreground-edge-swizzle" THEN [ok |-> TRUE, op |-> Swizzle]
    ELSE IF js.type[1] = "gaussian"
         THEN [ok |-> TRUE, op |-> Gaussian(IF js.fwtm_range_map_m = << >> THEN 0 ELSE js.fwtm_range_map_m[1])]
    ELSE IF js.type[1] = "perlin"
         THEN IF js.freq = << >> \/ js.amplitude_m = << >> THEN [ok |-> FALSE, op |-> NoOp]
              ELSE [ok |-> TRUE, op |-> Perlin(js.freq[1], IF js.octaves # << >> THEN js.octaves[1] ELSE 1, js.amplitude_m[1])]
    ELSE [ok |-> FALSE, op |-> NoOp]

\* the body of main's loop over the "noise" array: the noise_op of entry js,
\* or ok FALSE where the code calls exit(1)
parse_noise_op(js) ==
    IF js.type = << >> THEN [ok |-> FALSE, op |-> NoOp]
    ELSE IF js.type[1] = "foreground-edge-swizzle" THEN [ok |-> TRUE, op |-> Swizzle]
    ELSE IF js.type[1] = "gaussian"
         THEN IF js.fwtm_range_map_m = << >> THEN [ok |-> FALSE, op |-> NoOp]
              ELSE [ok |-> TRUE, op |-> Gaussian(js.fwtm_range_map_m[1])]
    ELSE IF js.type[1] = "perlin"
         THEN IF js.freq = << >> THEN [ok |-> FALSE, op |-> NoOp]
              ELSE IF js.amplitude_m = << >> THEN [ok |-> FALSE, op |-> NoOp]
              ELSE [ok |-> TRUE, op |-> Perlin(js.freq[1], IF js.octaves # << >> THEN js.octaves[1] ELSE 1, js.amplitude_m[1])]
    ELSE [ok |-> FALSE, op |-> NoOp]

\* gm_data_load_label_map_from_json, called to abort on error
label_map_loads(cmd) == cmd.label_map

\* main right after getopt_long: nothing is configured, queued, started or
\* written; the properties have main's defaults
InitSetup ==
    /\ t_in \in CommandLines
    /\ \E sc \in {[Defaults EXCEPT !.tree = TreeOne]} :
          /\ seed_opt = sc.seed
          /\ no_flip_opt = sc.no_flip
          /\ bg_far_clamp_mode_opt = sc.far
          /\ background_depth_m = sc.bg
          /\ min_body_size_px = sc.min_body
          /\ min_body_change_percent = sc.change
          /\ max_frame_count = sc.budget
          /\ src_tree = sc.tree
    /\ write_pfm_depth = t_in.pfm
    /\ noise_ops = << >>
    /\ left_to_right_map = SwapTable
    /\ work_queue = << >>
    /\ work_queue_lock = << >>
    /\ frame_count = 0
    /\ finished = FALSE
    /\ exit_code = << >>
    /\ files = {}
    /\ main_pc = "options"
    /\ main_i = 0
    /\ pc = [w \in Workers |-> "idle"]
    /\ work = [w \in Workers |-> NoWork]
    /\ i = [w \in Workers |-> 0]
    /\ prev_frame_labels = [w \in Workers |-> NULL]
    /\ labels = [w \in Workers |-> NULL]
    /\ depth = [w \in Workers |-> NULL]
    /\ noisy_labels = [w \in Workers |-> NULL]
    /\ noisy_depth = [w \in Workers |-> NULL]
    /\ rand_generator = [w \in Workers |-> seed(1)]
    /\ rand_at_noise = [w \in Workers |-> seed(1)]
    /\ popped = [d \in Dirs |-> << >>]
    /\ unit_log = [d \in Dirs |-> << >>]
    /\ label_heap = NoLabelImages
    /\ run = 1
    /\ t_pc = "none"
    /\ t_out = NoTest

\* if (write_pfm_depth && write_half_float) exit(1)
SetupOptions ==
    /\ Running
    /\ main_pc = "options"
    /\ IF write_pfm_depth /\ ~t_in.full
       THEN exit_code' = <<1>> /\ main_pc' = main_pc
       ELSE exit_code' = exit_code /\ main_pc' = "label_map"
    /\ UNCHANGED <<cfgVars, work_queue, work_queue_lock, frame_count, finished, files, main_i, pc, localVars, histVars, testVars>>

SetupLabelMap ==
    /\ Running
    /\ main_pc = "label_map"
    /\ IF ~label_map_loads(t_in)
       THEN exit_code' = <<1>> /\ main_pc' = main_pc
       ELSE exit_code' = exit_code /\ main_pc' = "config"
    /\ UNCHANGED <<cfgVars, work_queue, work_queue_lock, frame_count, finished, files, main_i, pc, localVars, histVars, testVars>>

\* if (config_opt): json_parse_file, then the "noise" array if there is one
SetupConfig ==
    /\ Running
    /\ main_pc = "config"
    /\ IF t_in.config = << >>
       THEN exit_code' = exit_code /\ main_pc' = "scan"
       ELSE IF ~t_in.config[1].parses
            THEN exit_code' = <<1>> /\ main_pc' = main_pc
            ELSE exit_code' = exit_code /\ main_pc' = (IF Len(t_in.config[1].noise) > 0 THEN "noise" ELSE "scan")
    /\ main_i' = 0
    /\ UNCHANGED <<cfgVars, work_queue, work_queue_lock, frame_count, finished, files, pc, localVars, histVars, testVars>>

\* one round of the loop over the "noise" array
SetupNoise ==
    /\ Running
    /\ main_pc = "noise"
    /\ LET res == parse_noise_op(t_in.config[1].noise[main_i + 1])
       IN  IF res.ok
           THEN /\ noise_ops' = Append(noise_ops, res.op)
                /\ main_i' = main_i + 1
                /\ main_pc' = (IF main_i + 1 < Len(t_in.config[1].noise) THEN "noise" ELSE "scan")
                /\ exit_code' = exit_code
           ELSE /\ exit_code' = <<1>>
                /\ UNCHANGED <<noise_ops, main_i, main_pc>>
    /\ UNCHANGED <<seed_opt, no_flip_opt, bg_far_clamp_mode_opt, write_pfm_depth, background_depth_m, min_body_size_px, min_body_change_percent, max_frame_count, left_to_right_map, src_tree, work_queue, work_queue_lock, frame_count, finished, files, pc, localVars, histVars, testVars>>

\* directory_recurse queues the work units
SetupScan ==
    /\ Running
    /\ main_pc = "scan"
    /\ work_queue' = src_tree.queue
    /\ main_pc' = "meta"
    /\ UNCHANGED <<cfgVars, work_queue_lock, frame_count, finished, files, exit_code, main_i, pc, localVars, histVars, testVars>>

NextSetup == SetupOptions \/ SetupLabelMap \/ SetupConfig \/ SetupNoise \/ SetupScan \/ MainMeta \/ MainSpawn

\* main runs
SpecSetup == InitSetup /\ [][NextSetup]_vars /\ WF_vars(NextSetup)

SetupPcs == {"options", "label_map", "config", "noise"}

\* entry js of the "noise" array is one of the listed fatal ones
EntryFatal(js) ==
    \/ js.type = << >>
    \/ js.type # << >> /\ js.type[1] \notin {"foreground-edge-swizzle", "gaussian", "perlin"}
    \/ js.type = <<"gaussian">> /\ js.fwtm_range_map_m = << >>
    \/ js.type = <<"perlin">> /\ (js.freq = << >> \/ js.amplitude_m = << >>)

\* the command line has a setup-fatal condition
SetupFatal ==
    \/ t_in.pfm /\ ~t_in.full
    \/ ~t_in.label_map
    \/ t_in.config # << >> /\ ~t_in.config[1].parses
    \/ t_in.config # << >> /\ \E k \in 1..Len(t_in.config[1].noise) : EntryFatal(t_in.config[1].noise[k])

NothingStarted ==
    /\ work_queue = << >>
    /\ files = {}
    /\ \A w \in Workers : pc[w] = "idle"

\* C22: with a setup-fatal condition the process exits nonzero, and does so
\* with no work unit queued, no worker started and no output file created;
\* without one it does not exit during setup; and a perlin entry without
\* octaves is parsed into a perlin operator with octaves = 1.
C22_SetupFatalBeforeWork ==
    /\ (SetupFatal => <>(exit_code = <<1>>))
    /\ [](SetupFatal => NothingStarted /\ main_pc \in SetupPcs)
    /\ [](exit_code # << >> => SetupFatal /\ exit_code = <<1>>)
    /\ [](\A k \in 1..Len(noise_ops) :
             LET js == t_in.config[1].noise[k]
             IN  js.type = <<"perlin">> /\ js.octaves = << >> => noise_ops[k].octaves = 1)

\* the process has exited at the second entry of the noise array, a perlin
\* entry without amplitude_m, after a perlin entry without octaves was parsed
C22_Witness ==
    /\ exit_code = <<1>>
    /\ main_pc = "noise"
    /\ main_i = 1
    /\ Len(noise_ops) = 1
    /\ t_in.config[1].noise[1].octaves = << >>
    /\ noise_ops[1] = Perlin(1, 1, 1)
    /\ t_in.config[1].noise[2].amplitude_m = << >>

(* ------------------------------------------------------------------ *)
(* C23: what the counter counts                                        *)
(* ------------------------------------------------------------------ *)

\* C23: the counter changes only by a worker's step past the budget test of
\* a retained frame, and then by exactly 2; and when a run without frame
\* budget over an empty output directory has returned, the counter equals the
\* number of output variants generated, with and without mirroring.
C23_CounterCountsVariants ==
    /\ [][frame_count' # frame_count => frame_count' = frame_count + 2 /\ \E w \in Workers : pc[w] = "incr"]_vars
    /\ []((run = 1 /\ NoBudget /\ exit_code = <<0>>) => frame_count = Cardinality(OutputFrames))

(* ------------------------------------------------------------------ *)
(* C24: the filter's decision                                          *)
(* ------------------------------------------------------------------ *)

\* the pixels of img that are not background, and the pixels at which a and
\* b differ
BodyPixels(img) == Cardinality({p \in DOMAIN img.data : img.data[p] # BACKGROUND_ID})

DifferingPixels(a, b) == Cardinality({p \in DOMAIN a.data : a.data[p] # b.data[p]})

\* the outcome for b body pixels of which d differ from the reference
Outcome(b, d) ==
    IF b = 0 THEN "empty"
    ELSE IF b < min_body_size_px THEN "too small"
    ELSE IF 100 * d * min_body_change_percent.den < min_body_change_percent.num * b THEN "too similar"
    ELSE "retain"

\* C24: every frame after the first of a unit has a reference image and gets
\* the one outcome that its body pixel count b and its count d of pixels
\* differing from the reference select in the order empty, too small, too
\* similar, retain; and the reference of the next frame is this frame if it
\* was retained and the same reference otherwise.
C24_FilterDecision ==
    /\ \A k \in 2..Len(t_out.decisions) :
          /\ t_out.refs[k] # NULL
          /\ t_out.decisions[k] = Outcome(BodyPixels(t_in[k]), DifferingPixels(t_in[k], t_out.refs[k]))
    /\ \A k \in 2..Len(t_out.decisions) :
          LET next == IF k < Len(t_out.decisions) THEN t_out.refs[k + 1] ELSE t_out.prev
          IN  next = (IF t_out.decisions[k] = "retain" THEN t_in[k] ELSE t_out.refs[k])

\* a second frame identical to the first and below the body size was dropped
\* as too small, not as too similar, and the third frame was retained against
\* the first
C24_Witness ==
    /\ t_pc = "filter"
    /\ Len(t_out.decisions) = 3
    /\ t_in[2] = t_in[1]
    /\ t_out.decisions = <<"retain", "too small", "retain">>
    /\ t_out.refs[3] = t_in[1]
    /\ t_out.prev = t_in[3]

(* ------------------------------------------------------------------ *)
(* C25, C26: the foreground edge swizzle on its own                    *)
(* ------------------------------------------------------------------ *)

SwizzleWidth == 4

SwizzleHeight == 3

\* label images of background and one body label, with the depth image that
\* holds at each pixel that pixel's position, and a generator whose first
\* draw is any of the eight neighbours
InitSwizzle ==
    /\ Configured(Defaults)
    /\ left_to_right_map = SwapTable
    /\ Idle
    /\ t_pc = "swizzle"
    /\ \E d \in [1..(SwizzleWidth * SwizzleHeight) -> {BACKGROUND_ID, 1}], s \in 0..(NumNeighbours - 1) :
          t_in = [labels |-> Image(SwizzleWidth, SwizzleHeight, d),
                  depth |-> Image(SwizzleWidth, SwizzleHeight, [p \in 1..(SwizzleWidth * SwizzleHeight) |-> p]),
                  rand |-> seed(s)]
    /\ t_out = NoTest

\* apply_foreground_edge_swizzle on the two images
SwizzlePass ==
    /\ t_pc = "swizzle"
    /\ t_out' = apply_foreground_edge_swizzle(t_in.rand, t_in.labels, t_in.depth)
    /\ t_pc' = "swizzled"
    /\ UNCHANGED <<cfgVars, sharedVars, mainVars, pc, localVars, histVars, t_in>>

NextSwizzle == SwizzlePass

SpecSwizzle == InitSwizzle /\ [][NextSwizzle]_vars

\* the interior pixels, as <<x, y>>, in the order the pass visits them
Interior == {c \in (1..(SwizzleWidth - 2)) \X (1..(SwizzleHeight - 2)) : TRUE}

Pos(c) == pixel_at(SwizzleWidth, c[1], c[2], 0, 0)

Before(c, e) == c[2] < e[2] \/ (c[2] = e[2] /\ c[1] < e[1])

\* the position of neighbour n (1..8) of pixel c in the 8-neighbourhood
Neighbour8(c, n) == pixel_at(SwizzleWidth, c[1], c[2], neighbour_position[n].x, neighbour_position[n].y)

\* c is a body pixel of the snapshot with a background pixel among its 8
\* neighbours
Edge8(c) ==
    /\ t_in.labels.data[Pos(c)] # BACKGROUND_ID
    /\ \E n \in 1..NumNeighbours : t_in.labels.data[Neighbour8(c, n)] = BACKGROUND_ID

\* the index drawn for edge pixel c: one draw per edge pixel, in visiting order
Draw8(c) == uniform_distribution([t_in.rand EXCEPT !.n = @ + Cardinality({e \in Interior : Edge8(e) /\ Before(e, c)})])

\* C25: after the pass, an interior body pixel with a background pixel among
\* its 8 neighbours in the snapshot -- directly above or below included --
\* has the snapshot label and depth of the neighbour drawn for it among those
\* 8 positions, and an interior body pixel without one is as it was.
C25_EightNeighbourhood ==
    t_pc = "swizzled" =>
        \A c \in Interior :
            t_in.labels.data[Pos(c)] # BACKGROUND_ID =>
                LET src == IF Edge8(c) THEN Neighbour8(c, Draw8(c) + 1) ELSE Pos(c)
                IN  /\ t_out.labels.data[Pos(c)] = t_in.labels.data[src]
                    /\ t_out.depth.data[Pos(c)] = t_in.depth.data[src]

\* the position of the n-th pixel the pass inspects for pixel c
Inspected(c, n) == macro_at(SwizzleWidth, c[1], c[2], neighbour_position[n].x, neighbour_position[n].y)

\* the pass finds pixel c to be an edge pixel: a body pixel of the snapshot
\* for which one of the pixels it inspects is background in the snapshot
FoundEdge(c) ==
    /\ t_in.labels.data[Pos(c)] # BACKGROUND_ID
    /\ \E n \in 1..NumNeighbours : t_in.labels.data[Inspected(c, n)] = BACKGROUND_ID

Changed(p) == t_out.labels.data[p] # t_in.labels.data[p] \/ t_out.depth.data[p] # t_in.depth.data[p]

OutputFrameNo(f) == 2 * f.frame_no + (IF f.name.flipped THEN 1 ELSE 0)

\* the noisy images of worker w are those that the noise for output frame
\* number n, Perlin seed offset included, and the clamp make of images l and d
NoisyAsFor(w, l, d, n) ==
    LET res == frame_add_noise(rand_at_noise[w], l, d, n)
    IN  /\ noisy_labels[w] = res.labels
        /\ noisy_depth[w] = clamp_depth(res.labels, res.depth)

\* C27: the noisy images a worker is about to save are those made with
\* output frame number 2f for the unflipped variant of input frame f and
\* 2f + 1 for the flipped one, and no two output frames written, by any
\* workers, have the same output frame number.
C27_OutputFrameNumbers ==
    /\ \A w \in Workers :
          /\ pc[w] \in {"save_labels", "save_depth"} =>
                NoisyAsFor(w, labels[w], depth[w], 2 * CurFrame(w).frame_no)
          /\ pc[w] \in {"save_labels_flipped", "save_depth_flipped"} =>
                NoisyAsFor(w, flip_frame_labels(labels[w], xalloc_image(labels[w].width, labels[w].height)),
                           flip_frame_depth(depth[w], xalloc_image(depth[w].width, depth[w].height)),
                           2 * CurFrame(w).frame_no + 1)
    /\ \A f, g \in OutputFrames : f # g => OutputFrameNo(f) # OutputFrameNo(g)

\* with Perlin noise configured, one worker is about to save the flipped
\* variant of a frame, of which the unflipped variant is written, while
\* another is about to save the unflipped variant of another frame
C27_Witness ==
    /\ \E n \in 1..Len(noise_ops) : noise_ops[n].type = "NOISE_PERLIN"
    /\ \E w, v \in Workers :
          /\ pc[w] = "save_labels_flipped" /\ pc[v] = "save_labels"
          /\ \E g \in OutputFrames : ~g.name.flipped /\ g.frame_no = CurFrame(w).frame_no

(* ------------------------------------------------------------------ *)
(* C28: noise works on copies                                          *)
(* ------------------------------------------------------------------ *)

\* the positions of a worker between the load of a retained frame's depth
\* and the end of that frame
VariantPcs == {"noise", "save_labels", "save_depth", "noise_flipped", "save_labels_flipped", "save_depth_flipped", "json", "json_flipped"}

\* the label and depth images of input frame fr as they are in the source tree
LoadedLabels(fr) == src_tree.labels[fr.frame_no + 1]

LoadedDepth(fr) == src_tree.depth[fr.frame_no + 1]

\* C28: while a worker generates the variants of a retained frame, its label
\* and depth buffers stay the images as loaded and the filter's reference is
\* the label image as loaded; no step of generating a variant changes them;
\* and the flipped variant is the noise and clamp of the flip of the images
\* as loaded, not of the noisy ones.
C28_NoiseOnCopies ==
    /\ [](\A w \in Workers :
            pc[w] \in VariantPcs =>
                /\ labels[w] = LoadedLabels(CurFrame(w))
                /\ depth[w] = LoadedDepth(CurFrame(w))
                /\ prev_frame_labels[w] = LoadedLabels(CurFrame(w)))
    /\ [](\A w \in Workers :
            pc[w] \in {"save_labels_flipped", "save_depth_flipped"} =>
                NoisyAsFor(w, flip_frame_labels(LoadedLabels(CurFrame(w)), xalloc_image(labels[w].width, labels[w].height)),
                           flip_frame_depth(LoadedDepth(CurFrame(w)), xalloc_image(depth[w].width, depth[w].height)),
                           2 * CurFrame(w).frame_no + 1))
    /\ [][\A w \in Workers :
            pc[w] \in VariantPcs =>
                /\ labels'[w] = labels[w]
                /\ depth'[w] = depth[w]
                /\ prev_frame_labels'[w] = prev_frame_labels[w]]_vars

\* a worker is about to save a flipped variant in which the noise changed
\* both the labels and the depth of the flipped images, which differ from the
\* unflipped ones
C28_Witness ==
    \E w \in Workers :
        /\ pc[w] = "save_labels_flipped"
        /\ LET fl == flip_frame_labels(labels[w], xalloc_image(labels[w].width, labels[w].height))
           IN  /\ fl # labels[w]
               /\ noisy_labels[w] # fl
               /\ \E p \in 1..Len(noisy_labels[w].data) :
                     noisy_labels[w].data[p] # BACKGROUND_ID /\ noisy_depth[w].data[p] # depth[w].data[p]

(* ------------------------------------------------------------------ *)
(* C29: clamp_depth on its own                                         *)
(* ------------------------------------------------------------------ *)

ClampWidth == 3

\* depths nearer than, at and farther than the background depth, and the
\* non-finite ones
ClampDepths == {2, 5, 9, NaN, PosInf}

\* a label image and a depth image of one row, in either clamp mode; t_out
\* holds the depth image before and after each clamp
InitClamp ==
    /\ \E far \in BOOLEAN : Configured([Defaults EXCEPT !.far = far])
    /\ left_to_right_map = SwapTable
    /\ Idle
    /\ t_pc = "clamp"
    /\ \E l \in [1..ClampWidth -> LabelIds], d \in [1..ClampWidth -> ClampDepths] :
          t_in = [labels |-> Image(ClampWidth, 1, l), depth |-> Image(ClampWidth, 1, d)]
    /\ t_out = <<t_in.depth>>

\* clamp_depth(labels, depth) on the latest depth image
ClampDepth ==
    /\ t_pc = "clamp"
    /\ Len(t_out) < 3
    /\ t_out' = Append(t_out, clamp_depth(t_in.labels, t_out[Len(t_out)]))
    /\ UNCHANGED <<cfgVars, sharedVars, mainVars, pc, localVars, histVars, t_pc, t_in>>

NextClamp == ClampDepth

SpecClamp == InitClamp /\ [][NextClamp]_vars

\* C29: after one clamp the image has its size, every background pixel has
\* depth background_depth_m when bg_far_clamp_mode is off, and when it is on
\* has background_depth_m if its depth was greater and its old depth
\* otherwise; a pixel that is not background has its old depth; and a second
\* clamp changes nothing.
C29_ClampDepth ==
    /\ Len(t_out) >= 2 =>
          /\ t_out[2].width = t_in.depth.width /\ t_out[2].height = t_in.depth.height
          /\ \A p \in 1..ClampWidth :
                LET old == t_in.depth.data[p]
                    new == t_out[2].data[p]
                IN  IF t_in.labels.data[p] # BACKGROUND_ID THEN new = old
                    ELSE IF ~bg_far_clamp_mode_opt THEN new = background_depth_m
                    ELSE IF old \in {9, PosInf} THEN new = background_depth_m
                    ELSE new = old
    /\ Len(t_out) = 3 => t_out[3] = t_out[2]

\* in far-clamp mode, a row with a background pixel farther than the
\* background depth, one nearer and a body pixel farther was clamped twice
C29_Witness ==
    /\ t_pc = "clamp"
    /\ bg_far_clamp_mode_opt
    /\ Len(t_out) = 3
    /\ t_in.labels.data = <<BACKGROUND_ID, BACKGROUND_ID, 1>>
    /\ t_in.depth.data = <<9, 2, 9>>
    /\ t_out[2].data = <<5, 2, 9>>

(* ------------------------------------------------------------------ *)
(* C30: when a frame is counted                                        *)
(* ------------------------------------------------------------------ *)

\* the frames of directory d whose processing has ended
EndedIn(d) == Cardinality({k \in 1..Len(unit_log[d]) : unit_log[d][k].ev = "end"})

\* the frames whose processing has ended
Ended == EndedIn("a") + EndedIn("b")

\* the workers that are generating or writing the variants of a frame
InProgress == {w \in Workers : pc[w] \in VariantPcs}

\* the counter changes only by a worker's step after the budget test of its
\* frame, by 2, and the next step of that worker is not a filter decision
CountedAfterBudgetTest ==
    [][frame_count' # frame_count =>
          /\ frame_count' = frame_count + 2
          /\ \E w \in Workers : pc[w] = "incr" /\ pc'[w] \in {"incr", "noise"}]_vars

Entry(name, dir) == [d_name |-> name, is_dir |-> dir]

\* strstr(d_name, ".png") && ext[4] == '\0': the first ".png" of the name
\* is its end
is_label_file(d_name) ==
    /\ \E k \in 1..Len(d_name) : d_name[k] = ".png"
    /\ (CHOOSE k \in 1..Len(d_name) :
           d_name[k] = ".png" /\ \A j \in 1..(k - 1) : d_name[j] # ".png") = Len(d_name)

\* strcmp(d_name, ".") == 0 || strcmp(d_name, "..") == 0
is_dot(d_name) == d_name = <<".">> \/ d_name = <<"..">>

\* the sequences of at most n different elements of S
RECURSIVE Enumerations(_, _)
Enumerations(S, n) ==
    IF n = 0 THEN {<< >>}
    ELSE LET shorter == Enumerations(S, n - 1)
         IN  shorter \cup
                {Append(p[1], p[2]) :
                    p \in {q \in shorter \X S :
                              Len(q[1]) = n - 1 /\ \A k \in 1..Len(q[1]) : q[1][k] # q[2]}}

\* the entries a directory of the tree may hold, by its relative path
EntriesOf(rel_path) ==
    IF rel_path = << >>
    THEN {Entry(<<".">>, TRUE), Entry(<<"0", ".png">>, FALSE), Entry(<<"1", ".png">>, FALSE),
          Entry(<<"0", ".json">>, FALSE), Entry(<<"a">>, TRUE)}
    ELSE IF rel_path = <<"a">>
    THEN {Entry(<<"0", ".png">>, FALSE), Entry(<<"1", ".png">>, FALSE), Entry(<<"c">>, TRUE)}
    ELSE {Entry(<<"0", ".png">>, FALSE), Entry(<<"0", ".png", ".bak">>, FALSE)}

ScanDirs == {<< >>, <<"a">>, <<"a", "c">>}

\* the source trees: each directory enumerates at most MaxFrames entries,
\* in any order
ScanTrees ==
    {[d \in ScanDirs |-> IF d = << >> THEN top ELSE IF d = <<"a">> THEN sub ELSE leaf] :
        top \in Enumerations(EntriesOf(<< >>), MaxFrames),
        sub \in Enumerations(EntriesOf(<<"a">>), MaxFrames),
        leaf \in Enumerations(EntriesOf(<<"a", "c">>), MaxFrames)}

\* a pointer that follows the back of the queue
work_unit_back(call, queue) == Len(queue)

\* work = &work_queue.back(): the unit the pointer refers to; a deque keeps
\* the address of an element when another is pushed behind it
work_unit(call, queue) == call.work

\* directory_recurse(rel_path, frame_count) entered: nothing read yet, work
\* is NULL
ScanCall(rel_path) == [rel_path |-> rel_path, pos |-> 0, work |-> 0]

\* the scan starts with directory_recurse("", &input_frame_count) on an
\* empty queue
InitScan ==
    /\ Configured(Defaults)
    /\ left_to_right_map = SwapTable
    /\ Idle
    /\ t_pc = "scan"
    /\ t_in \in ScanTrees
    /\ t_out = [stack |-> <<ScanCall(<< >>)>>, queue |-> << >>, frame_count |-> 0]

\* one turn of the readdir loop of the innermost call, or its return when
\* the directory is exhausted
ScanReaddir ==
    /\ t_pc = "scan"
    /\ LET top == Len(t_out.stack)
           call == t_out.stack[top]
           entries == t_in[call.rel_path]
           label_entry == entries[call.pos + 1]
           read == [call EXCEPT !.pos = call.pos + 1]
       IN  IF call.pos = Len(entries)
           THEN /\ t_out' = [t_out EXCEPT !.stack = SubSeq(t_out.stack, 1, top - 1)]
                /\ t_pc' = IF top = 1 THEN "scanned" ELSE "scan"
           ELSE /\ t_pc' = t_pc
                /\ IF is_dot(label_entry.d_name)
                   THEN t_out' = [t_out EXCEPT !.stack[top] = read]
                   ELSE IF label_entry.is_dir
                   THEN t_out' = [t_out EXCEPT !.stack =
                                     Append([t_out.stack EXCEPT ![top] = read],
                                            ScanCall(Append(call.rel_path, label_entry.d_name[1])))]
                   ELSE IF is_label_file(label_entry.d_name)
                   THEN LET pushed == IF call.work = 0
                                      THEN Append(t_out.queue, [dir |-> call.rel_path, frames |-> << >>])
                                      ELSE t_out.queue
                            new == IF call.work = 0
                                   THEN [read EXCEPT !.work = Len(pushed)]
                                   ELSE read
                            u == work_unit(new, pushed)
                            input_frame == [path |-> label_entry.d_name, frame_no |-> t_out.frame_count]
                        IN  t_out' = [stack |-> [t_out.stack EXCEPT ![top] = new],
                                      queue |-> [pushed EXCEPT ![u].frames = Append(@, input_frame)],
                                      frame_count |-> input_frame.frame_no + 1]
                   ELSE t_out' = [t_out EXCEPT !.stack[top] = read]
    /\ UNCHANGED <<cfgVars, sharedVars, mainVars, pc, localVars, histVars, t_in>>

NextScan == ScanReaddir

SpecScan == InitScan /\ [][NextScan]_vars

\* the directories the scan enters
ScanReached ==
    {d \in ScanDirs :
        \A k \in 1..Len(d) :
            \E e \in 1..Len(t_in[SubSeq(d, 1, k - 1)]) :
                LET entry == t_in[SubSeq(d, 1, k - 1)][e]
                IN  entry.is_dir /\ entry.d_name = <<d[k]>>}

\* the names of the label files of directory d
LabelFilesOf(d) ==
    {t_in[d][e].d_name : e \in {k \in 1..Len(t_in[d]) :
        ~t_in[d][k].is_dir /\ is_label_file(t_in[d][k].d_name)}}

\* the places of the queue: unit and position in the unit
QueuedFrames == {p \in (1..Len(t_out.queue)) \X (1..MaxFrames + 1) : p[2] <= Len(t_out.queue[p[1]].frames)}

QueuedFrame(p) == t_out.queue[p[1]].frames[p[2]]

RECURSIVE SumOver(_, _)
SumOver(S, f) ==
    IF S = {} THEN 0
    ELSE LET x == CHOOSE y \in S : TRUE IN f[x] + SumOver(S \ {x}, f)

\* the number of label files the scan discovers
Discovered == SumOver(ScanReached, [d \in ScanDirs |-> Cardinality(LabelFilesOf(d))])

\* C31: within each unit the frame numbers are strictly increasing in
\* sequence order, and after the scan the frame numbers over all units are
\* pairwise distinct and exactly 0..n-1 for n discovered label files, each
\* file is in exactly one unit, that of its directory, and there is one
\* unit per directory that has label files, however files and
\* sub-directories are interleaved in the enumeration.
C31_ScannerNumbering ==
    /\ t_pc \in {"scan", "scanned"} =>
          \A u \in 1..Len(t_out.queue) :
              \A j, k \in 1..Len(t_out.queue[u].frames) :
                  j < k => t_out.queue[u].frames[j].frame_no < t_out.queue[u].frames[k].frame_no
    /\ t_pc = "scanned" =>
          /\ \A p, q \in QueuedFrames : p # q => QueuedFrame(p).frame_no # QueuedFrame(q).frame_no
          /\ {QueuedFrame(p).frame_no : p \in QueuedFrames} = 0..(Discovered - 1)
          /\ \A d \in ScanReached : \A name \in LabelFilesOf(d) :
                /\ Cardinality({p \in QueuedFrames : QueuedFrame(p).path = name
                                                       /\ t_out.queue[p[1]].dir = d}) = 1
          /\ Cardinality(QueuedFrames) = Discovered
          /\ \A d \in ScanDirs :
                Cardinality({u \in 1..Len(t_out.queue) : t_out.queue[u].dir = d})
                   = IF d \in ScanReached /\ LabelFilesOf(d) # {} THEN 1 ELSE 0

\* the top directory listed a label file, then a sub-directory with a label
\* file of its own, then another label file: the scan is over with the two
\* units, the first holding frames 0 and 2
C31_Witness ==
    /\ t_pc = "scanned"
    /\ t_in[<< >>] = <<Entry(<<"0", ".png">>, FALSE), Entry(<<"a">>, TRUE), Entry(<<"1", ".png">>, FALSE)>>
    /\ t_in[<<"a">>] = <<Entry(<<"1", ".png">>, FALSE)>>
    /\ t_out.queue = << [dir |-> << >>, frames |-> << [path |-> <<"0", ".png">>, frame_no |-> 0],
                                                       [path |-> <<"1", ".png">>, frame_no |-> 2] >>],
                        [dir |-> <<"a">>, frames |-> << [path |-> <<"1", ".png">>, frame_no |-> 1] >>] >>

(* ------------------------------------------------------------------ *)
(* C32: the discipline of the work queue                               *)
(* ------------------------------------------------------------------ *)

\* the threads inside a critical section of the queue lock: a worker
\* between its lock and its unlock, the coordinator around its size read
InCritical ==
    {w \in Workers : pc[w] = "pop"} \cup (IF main_pc = "mon_read" THEN {MainThread} ELSE {})

\* a worker thread has been started
WorkersStarted == \E w \in Workers : pc[w] # "idle"

\* what remains queued is the end of what the scanner queued
IsSuffix(s, t) == Len(s) <= Len(t) /\ s = SubSeq(t, Len(t) - Len(s) + 1, Len(t))

\* C32: once a worker is started, the threads inside a critical section of
\* the queue are exactly the holder of the lock, so there is never more
\* than one, and the lock is free when nobody is inside, also after a
\* worker left through the queue-empty exit; the queue changes only by the
\* holder of the lock taking its front unit, so nothing is pushed and the
\* units leave in the order the scanner queued them; a worker's empty-test
\* and the coordinator's size read are steps of the lock's holder.
C32_QueueDiscipline ==
    /\ [](WorkersStarted =>
             /\ Cardinality(InCritical) <= 1
             /\ \A t \in Workers \cup {MainThread} : t \in InCritical <=> work_queue_lock = <<t>>
             /\ InCritical = {} => work_queue_lock = << >>
             /\ IsSuffix(work_queue, src_tree.queue))
    /\ [][/\ work_queue' # work_queue =>
                \E w \in Workers :
                    /\ work_queue_lock = <<w>>
                    /\ work_queue' = Tail(work_queue)
                    /\ work'[w] = Head(work_queue)
          /\ \A w \in Workers :
                pc[w] = "pop" /\ pc'[w] # "pop" =>
                    /\ work_queue_lock = <<w>> /\ work_queue_lock' = << >>
                    /\ pc'[w] = "done" <=> work_queue = << >>
          /\ main_pc = "mon_read" /\ main_pc' # "mon_read" =>
                /\ work_queue_lock = <<MainThread>> /\ work_queue_lock' = << >>
                /\ main_pc' = "join" <=> (Len(work_queue) = 0 \/ finished)]_vars

\* a worker has left through the queue-empty exit, the other holds the
\* second unit and nothing is queued, and the coordinator is inside its
\* critical section holding the lock
C32_Witness ==
    /\ \E w, v \in Workers : pc[w] = "done" /\ work[v] = src_tree.queue[2]
    /\ Len(src_tree.queue) = 2
    /\ work_queue = << >>
    /\ main_pc = "mon_read"
    /\ work_queue_lock = <<MainThread>>
    /\ exit_code = << >>

(* ------------------------------------------------------------------ *)
(* C33: one flip, pixel by pixel                                       *)
(* ------------------------------------------------------------------ *)

\* the value of image img at column x of row y
At(img, x, y) == img.data[y * img.width + x + 1]

\* C33: the flipped image has the dimensions of its source, every pixel
\* of it has been assigned, and at column x of row y it holds, for labels,
\* the swap-table entry of the source label at column W - 1 - x of that row
\* and, for depth, the source depth at column W - 1 - x unchanged; the
\* middle column of an odd width is no exception.
C33_FlipPixels ==
    Len(t_out) >= 2 /\ t_pc \in {"labels", "depth"} =>
        LET flipped == t_out[2]
        IN  /\ flipped.width = t_in.width
            /\ flipped.height = t_in.height
            /\ DOMAIN flipped.data = 1..(t_in.width * t_in.height)
            /\ \A y \in 0..(t_in.height - 1) : \A x \in 0..(t_in.width - 1) :
                  /\ At(flipped, x, y) # Unassigned
                  /\ At(flipped, x, y) = IF t_pc = "labels"
                                         THEN left_to_right_map[At(t_in, t_in.width - 1 - x, y)]
                                         ELSE At(t_in, t_in.width - 1 - x, y)

\* a label row of width 3 whose middle label has an opposite, and whose
\* ends differ, was flipped: the middle column holds the opposite label
C33_Witness ==
    /\ t_pc = "labels" /\ Len(t_out) = 2
    /\ t_in.width = 3 /\ t_in.height = 1
    /\ left_to_right_map[t_in.data[2]] # t_in.data[2]
    /\ t_in.data[1] # t_in.data[3]
    /\ t_out[2].data[2] = left_to_right_map[t_in.data[2]]

(* ------------------------------------------------------------------ *)
(* C34: who owns a loaded label image                                  *)
(* ------------------------------------------------------------------ *)

\* the workers inside the body of the frame loop, where labels points at
\* the image of the current frame
InFrame == {w \in Workers : pc[w] \in {"budget", "incr", "json", "json_flipped"} \cup VariantPcs}

\* the frames whose label image some worker can still reach: through
\* labels, inside the frame loop, or through prev_frame_labels
Referenced ==
    {CurFrame(w).frame_no : w \in InFrame} \cup ({label_heap.prev[w] : w \in Workers} \ {-1})

\* C34 as stated: while the process runs no label image is freed twice,
\* the image a worker reads through labels or prev_frame_labels is
\* allocated, and every allocated image is still reachable by the worker
\* that loaded it, so that it is freed when dropped, when replaced as the
\* filter's reference or when the unit finishes, on every path out of the
\* frame loop including the budget-reached exit.
C34_LabelImagesReleasedOnce ==
    Running =>
        /\ label_heap.twice = {}
        /\ Referenced \subseteq label_heap.live
        /\ label_heap.live \subseteq Referenced

\* what holds: no label image is freed twice and none is read after it was
\* freed
C34_NoDoubleFreeNoUseAfterFree ==
    Running => label_heap.twice = {} /\ Referenced \subseteq label_heap.live

\* main has returned after the budget was reached and a label image is
\* still allocated
C34_LeakedAtBudgetExit ==
    /\ exit_code = <<0>>
    /\ finished
    /\ label_heap.live # {}

(* ------------------------------------------------------------------ *)
(* C35: how far the counter can pass the budget                        *)
(* ------------------------------------------------------------------ *)

\* C35: the budget test and the increment are two steps of a worker, and
\* in every state frame_count is even and at most
\* max_frame_count + 2 * NumWorkers - 1, and finished is set only in states
\* where frame_count >= max_frame_count.
C35_BudgetOvershootBound ==
    /\ frame_count % 2 = 0
    /\ frame_count - max_frame_count <= 2 * NumWorkers - 1
    /\ finished => frame_count >= max_frame_count

\* with a budget of 3, two workers passed the budget test with the counter
\* at 2 and both have incremented it: the counter is 6 while both are at
\* work on their frames
C35_Witness ==
    /\ max_frame_count = 3
    /\ frame_count = 6
    /\ ~finished
    /\ \E w, v \in Workers : w # v /\ pc[w] \in VariantPcs /\ pc[v] \in VariantPcs

(* ------------------------------------------------------------------ *)
(* C36: the swizzle, the clamp and the guard on a consistent frame     *)
(* ------------------------------------------------------------------ *)

\* the depth of a frame whose label image is l: background_depth_m at the
\* background pixels, and at a body pixel a nearer depth that differs from
\* pixel to pixel
ConsistentDepth(l) ==
    [p \in 1..(SwizzleWidth * SwizzleHeight) |->
        IF l[p] = BACKGROUND_ID THEN Defaults.bg ELSE 1 + (p % (Defaults.bg - 1))]

\* the swizzle is the only configured noise op; the frame is any label image
\* of background and one body label with its consistent depth, in either
\* clamp mode, and the generator's first draw is any of the eight neighbours
InitConsistent ==
    /\ \E far \in BOOLEAN : Configured([Defaults EXCEPT !.far = far, !.ops = <<Swizzle>>])
    /\ left_to_right_map = SwapTable
    /\ Idle
    /\ t_pc = "consistent"
    /\ \E d \in [1..(SwizzleWidth * SwizzleHeight) -> {BACKGROUND_ID, 1}], s \in 0..(NumNeighbours - 1) :
          t_in = [labels |-> Image(SwizzleWidth, SwizzleHeight, d),
                  depth |-> Image(SwizzleWidth, SwizzleHeight, ConsistentDepth(d)),
                  rand |-> seed(s)]
    /\ t_out = NoTest

\* frame_add_noise, clamp_depth and sanity_check_frame on the frame, as the
\* worker runs them for one variant
NoiseClampGuard ==
    /\ t_pc = "consistent"
    /\ LET res == frame_add_noise(t_in.rand, t_in.labels, t_in.depth, 0)
           clamped == clamp_depth(res.labels, res.depth)
       IN  t_out' = [labels |-> res.labels, depth |-> clamped, passed |-> sanity_check_frame(res.labels, clamped)]
    /\ t_pc' = "guarded"
    /\ UNCHANGED <<cfgVars, sharedVars, mainVars, pc, localVars, histVars, t_in>>

NextConsistent == NoiseClampGuard

SpecConsistent == InitConsistent /\ [][NextConsistent]_vars

\* in the input frame a pixel is background exactly when its depth is
\* background_depth_m, and every depth is finite and at most background_depth_m
ConsistentInput ==
    \A p \in 1..(SwizzleWidth * SwizzleHeight) :
        /\ t_in.labels.data[p] = BACKGROUND_ID <=> t_in.depth.data[p] = background_depth_m
        /\ ~isnan(t_in.depth.data[p]) /\ ~isinf(t_in.depth.data[p])
        /\ t_in.depth.data[p] <= background_depth_m

\* C36: for a consistent input frame and the swizzle as the only noise op,
\* in both clamp modes, the label and the depth of every output pixel are
\* the label and the depth one single pixel of the input frame has, and
\* the sanity guard does not fire.
C36_SwizzleKeepsPairs ==
    t_pc = "guarded" /\ ConsistentInput /\ noise_ops = <<Swizzle>> =>
        /\ t_out.passed
        /\ \A p \in 1..(SwizzleWidth * SwizzleHeight) :
              \E q \in 1..(SwizzleWidth * SwizzleHeight) :
                  /\ t_out.labels.data[p] = t_in.labels.data[q]
                  /\ t_out.depth.data[p] = t_in.depth.data[q]

\* in far-clamp mode both interior pixels of a consistent frame were body
\* pixels; one became background with the background depth, the other took
\* the label and depth of another body pixel
C36_Witness ==
    /\ t_pc = "guarded"
    /\ bg_far_clamp_mode_opt
    /\ ConsistentInput
    /\ t_in.labels.data[SwizzleWidth + 2] # BACKGROUND_ID
    /\ t_in.labels.data[SwizzleWidth + 3] # BACKGROUND_ID
    /\ \E p, q \in {SwizzleWidth + 2, SwizzleWidth + 3} :
          /\ t_out.labels.data[p] = BACKGROUND_ID /\ t_out.depth.data[p] = background_depth_m
          /\ t_out.labels.data[q] # BACKGROUND_ID /\ t_out.depth.data[q] # t_in.depth.data[q]

(* ------------------------------------------------------------------ *)
(* C37, C38, C39: the memory pool (glimpse_mem_pool.cc)                *)
(* ------------------------------------------------------------------ *)

\* the largest unsigned, in the model's integers
UINT_MAX == UINT64_MAX

\* size - 1 for an unsigned size
unsigned_minus_one(size) == IF size = 0 THEN UINT_MAX ELSE size - 1

\* a throttle that lets the pool grow by one more resource
pool_full_late(busy, available, max_size) == Len(busy) + Len(available) > max_size + 1

\* pool->busy.size() + pool->available.size() > pool->max_size
pool_full(busy, available, max_size) == Len(busy) + Len(available) > max_size

\* a removal that pops the back of the busy list whatever was found
busy_remove_back(busy, k) == SubSeq(busy, 1, Len(busy) - 1)

\* pool->busy[i] = pool->busy.back(); pool->busy.pop_back();
busy_remove(busy, k) == SubSeq([busy EXCEPT ![k] = busy[Len(busy)]], 1, Len(busy) - 1)

\* a recycle that wakes nobody
notify_none(waiting) == {}

\* pool->available_cond.notify_all(): every waiting thread is woken
notify_all(waiting) == waiting

\* the threads that call into the pool
PoolThreads == Workers

\* mem_pool_alloc: both lists are empty, nothing is allocated, no thread
\* holds a resource or waits
InitPool ==
    /\ Configured(Defaults)
    /\ left_to_right_map = SwapTable
    /\ Idle
    /\ t_pc = "pool"
    /\ t_in \in [max_size : 0..MaxPoolSize]
    /\ t_out = [busy |-> << >>, available |-> << >>, allocated |-> 0,
                held |-> [t \in PoolThreads |-> {}], waiting |-> {}, notified |-> {}]

\* resource = pool->available.back(); pool->available.pop_back();
\* pool->busy.push_back(resource); return resource; for thread t
take_available(pool, t) ==
    LET resource == pool.available[Len(pool.available)]
    IN  [pool EXCEPT !.available = SubSeq(@, 1, Len(@) - 1),
                     !.busy = Append(@, resource),
                     !.held[t] = @ \cup {resource},
                     !.waiting = @ \ {t},
                     !.notified = @ \ {t}]

\* mem_pool_acquire_resource up to its return or its first wait, under the
\* pool lock: an available resource is reused, or the caller starts to wait
\* on available_cond, or alloc_mem makes a new resource
mem_pool_acquire_resource(pool, max_size, t) ==
    IF Len(pool.available) # 0
    THEN take_available(pool, t)
    ELSE IF pool_full(pool.busy, pool.available, max_size)
    THEN [pool EXCEPT !.waiting = @ \cup {t}]
    ELSE [pool EXCEPT !.allocated = @ + 1,
                      !.busy = Append(@, pool.allocated + 1),
                      !.held[t] = @ \cup {pool.allocated + 1}]

\* thread t calls mem_pool_acquire_resource
Acquire(t) ==
    /\ t_pc = "pool"
    /\ t \notin t_out.waiting
    /\ t_out' = mem_pool_acquire_resource(t_out, t_in.max_size, t)
    /\ UNCHANGED <<cfgVars, sharedVars, mainVars, pc, localVars, histVars, t_pc, t_in>>

\* available_cond.wait returns in a notified thread, which holds the lock
\* again and re-tests the list: while (!pool->available.size()) wait
AcquireWake(t) ==
    /\ t_pc = "pool"
    /\ t \in t_out.waiting
    /\ t \in t_out.notified
    /\ t_out' = IF Len(t_out.available) = 0
                THEN [t_out EXCEPT !.notified = @ \ {t}]
                ELSE take_available(t_out, t)
    /\ UNCHANGED <<cfgVars, sharedVars, mainVars, pc, localVars, histVars, t_pc, t_in>>

\* the busy list after the search loop of mem_pool_recycle_resource
busy_after_search(busy, resource) ==
    IF \E k \in 1..Len(busy) : busy[k] = resource
    THEN busy_remove(busy, CHOOSE k \in 1..Len(busy) :
                              busy[k] = resource /\ \A j \in 1..(k - 1) : busy[j] # resource)
    ELSE busy

\* gm_assert(pool->busy.size() == (size - 1)) holds
recycle_assertion(busy, size) == Len(busy) = unsigned_minus_one(size)

\* gm_assert with a false condition ends the process
gm_assert_failed == "aborted"

\* mem_pool_recycle_resource(pool, resource) by thread t, under the pool
\* lock; when the assertion fails nothing after it is executed
Recycle(t, resource) ==
    /\ t_pc = "pool"
    /\ t \notin t_out.waiting
    /\ LET size == Len(t_out.busy)
           busy == busy_after_search(t_out.busy, resource)
       IN  IF recycle_assertion(busy, size)
           THEN /\ t_out' = [t_out EXCEPT !.busy = busy,
                                          !.available = Append(@, resource),
                                          !.held[t] = @ \ {resource},
                                          !.notified = notify_all(t_out.waiting)]
                /\ t_pc' = t_pc
           ELSE /\ t_out' = [t_out EXCEPT !.busy = busy]
                /\ t_pc' = gm_assert_failed
    /\ UNCHANGED <<cfgVars, sharedVars, mainVars, pc, localVars, histVars, t_in>>

\* a thread recycles a resource it holds
RecycleHeld(t) == \E resource \in t_out.held[t] : Recycle(t, resource)

\* the resources of the pool that are in nobody's hands
NotBusy == (1..t_out.allocated) \ {t_out.busy[k] : k \in 1..Len(t_out.busy)}

\* a thread recycles a resource that is not busy: a second recycle
RecycleAgain(t) == \E resource \in NotBusy : Recycle(t, resource)

NextPool == \E t \in PoolThreads : Acquire(t) \/ AcquireWake(t) \/ RecycleHeld(t) \/ RecycleAgain(t)

SpecPool == InitPool /\ [][NextPool]_vars

\* the resources of a list
InList(list) == {list[k] : k \in 1..Len(list)}

NoDuplicate(list) == \A j, k \in 1..Len(list) : j # k => list[j] # list[k]

\* C37: a new resource is allocated only by an acquire that finds the
\* available list empty and busy + available <= max_size; an acquire that
\* finds an available resource reuses it, and one that finds none and the
\* pool full starts to wait; so in every state busy + available is at most
\* max_size + 1.
C37_PoolBound ==
    /\ [](Len(t_out.busy) + Len(t_out.available) <= t_in.max_size + 1)
    /\ [][/\ t_out'.allocated # t_out.allocated =>
                /\ t_out'.allocated = t_out.allocated + 1
                /\ Len(t_out.available) = 0
                /\ Len(t_out.busy) + Len(t_out.available) <= t_in.max_size
          /\ \A t \in PoolThreads :
                t \notin t_out.waiting /\ t \in t_out'.waiting =>
                    /\ Len(t_out.available) = 0
                    /\ Len(t_out.busy) + Len(t_out.available) > t_in.max_size
                    /\ t_out'.allocated = t_out.allocated
          /\ Len(t_out'.busy) > Len(t_out.busy) /\ Len(t_out.available) # 0 =>
                /\ t_out'.allocated = t_out.allocated
                /\ t_out'.busy = Append(t_out.busy, t_out.available[Len(t_out.available)])]_vars

\* the pool holds max_size + 1 resources, all busy, and a thread waits
C37_Witness ==
    /\ t_pc = "pool"
    /\ t_in.max_size = 1
    /\ Len(t_out.busy) = 2 /\ Len(t_out.available) = 0
    /\ t_out.allocated = 2
    /\ t_out.waiting # {}

SpecPoolFair == SpecPool /\ \A t \in PoolThreads : WF_vars(AcquireWake(t))

EventKinds == {"EVENT_DEVICE", "GM_EVENT_REQUEST_FRAME", "GM_EVENT_TRACKING_READY"}

\* main before its loop: both vectors are empty, the context exists and the
\* device is open with its callback set; nothing was delivered, handled or
\* freed
InitEvents ==
    /\ Configured(Defaults)
    /\ left_to_right_map = SwapTable
    /\ Idle
    /\ t_pc = "while"
    /\ t_in = EventKinds
    /\ t_out = [events_front |-> << >>, events_back |-> << >>, i |-> 0,
                finished |-> FALSE, tracking_ready |-> FALSE, signalled |-> FALSE,
                device |-> TRUE, ctx |-> TRUE,
                kinds |-> << >>, handled |-> << >>, freed |-> << >>, appended_while_iterated |-> FALSE]

\* on_event_cb and on_device_event_cb, on whatever thread: under the queue
\* lock the event is pushed to events_back and the condition is signalled.
\* The device delivers until gm_device_stop, the context until
\* gm_context_destroy; events are numbered in delivery order.
Deliver(kind) ==
    /\ t_pc # "end"
    /\ Len(t_out.kinds) < MaxEvents
    /\ IF kind = "EVENT_DEVICE" THEN t_out.device ELSE t_out.ctx
    /\ t_out' = [t_out EXCEPT !.kinds = Append(@, kind),
                              !.events_back = Append(@, Len(t_out.kinds) + 1),
                              !.signalled = @ \/ t_pc = "cond_wait",
                              !.appended_while_iterated = @ \/ t_pc = "free_back"]
    /\ UNCHANGED <<cfgVars, sharedVars, mainVars, pc, localVars, histVars, t_pc, t_in>>

\* while (!data.finished), then under the lock: if events_back is empty,
\* pthread_cond_wait
MainWhile ==
    /\ t_pc = "while"
    /\ t_pc' = IF t_out.finished THEN "stop"
               ELSE IF Len(t_out.events_back) = 0 THEN "cond_wait" ELSE "swap"
    /\ UNCHANGED <<cfgVars, sharedVars, mainVars, pc, localVars, histVars, t_in, t_out>>

\* pthread_cond_wait returns after a signal
MainWake ==
    /\ t_pc = "cond_wait"
    /\ t_out.signalled
    /\ t_out' = [t_out EXCEPT !.signalled = FALSE]
    /\ t_pc' = "swap"
    /\ UNCHANGED <<cfgVars, sharedVars, mainVars, pc, localVars, histVars, t_in>>

\* event_loop_iteration: std::swap(events_front, events_back) under the lock
MainSwap ==
    /\ t_pc = "swap"
    /\ t_out' = [t_out EXCEPT !.events_front = t_out.events_back,
                              !.events_back = t_out.events_front,
                              !.i = 0]
    /\ t_pc' = "handle"
    /\ UNCHANGED <<cfgVars, sharedVars, mainVars, pc, localVars, histVars, t_in>>

\* one turn of the loop over events_front, without the lock: the event is
\* handled and freed by its handler; after the last one the vector is
\* cleared and the squashed updates run, where check_complete may set
\* finished once a tracking was ready
MainHandle ==
    /\ t_pc = "handle"
    /\ IF t_out.i < Len(t_out.events_front)
       THEN /\ t_out' = [t_out EXCEPT !.handled = Append(@, t_out.events_front[t_out.i + 1]),
                                      !.tracking_ready = @ \/ t_out.kinds[t_out.events_front[t_out.i + 1]] = "GM_EVENT_TRACKING_READY",
                                      !.i = @ + 1]
            /\ t_pc' = t_pc
       ELSE /\ \E complete \in (IF t_out.tracking_ready THEN BOOLEAN ELSE {FALSE}) :
                  t_out' = [t_out EXCEPT !.events_front = << >>,
                                         !.tracking_ready = FALSE,
                                         !.finished = @ \/ complete]
            /\ t_pc' = "while"
    /\ UNCHANGED <<cfgVars, sharedVars, mainVars, pc, localVars, histVars, t_in>>

\* gm_device_stop after the loop
MainStop ==
    /\ t_pc = "stop"
    /\ t_out' = [t_out EXCEPT !.device = FALSE, !.i = 0]
    /\ t_pc' = "free_back"
    /\ UNCHANGED <<cfgVars, sharedVars, mainVars, pc, localVars, histVars, t_in>>

\* one turn of the shutdown loop over events_back, without the lock: the
\* event is freed
MainFreeBack ==
    /\ t_pc = "free_back"
    /\ IF t_out.i < Len(t_out.events_back)
       THEN /\ t_out' = [t_out EXCEPT !.freed = Append(@, t_out.events_back[t_out.i + 1]), !.i = @ + 1]
            /\ t_pc' = t_pc
       ELSE /\ t_out' = t_out
            /\ t_pc' = "destroy"
    /\ UNCHANGED <<cfgVars, sharedVars, mainVars, pc, localVars, histVars, t_in>>

\* gm_context_destroy, then the vectors are deleted and main returns
MainDestroy ==
    /\ t_pc = "destroy"
    /\ t_out' = [t_out EXCEPT !.ctx = FALSE]
    /\ t_pc' = "end"
    /\ UNCHANGED <<cfgVars, sharedVars, mainVars, pc, localVars, histVars, t_in>>

NextEvents ==
    \/ \E kind \in t_in : Deliver(kind)
    \/ MainWhile
    \/ MainWake
    \/ MainSwap
    \/ MainHandle
    \/ MainStop
    \/ MainFreeBack
    \/ MainDestroy

SpecEvents == InitEvents /\ [][NextEvents]_vars

\* how often event e occurs in list
Occurrences(list, e) == Cardinality({k \in 1..Len(list) : list[k] = e})

\* the events of events_front the loop has not reached yet
Unhandled == IF t_pc = "handle" THEN SubSeq(t_out.events_front, t_out.i + 1, Len(t_out.events_front)) ELSE t_out.events_front

\* C40 as stated: every delivered event is appended to events_back under
\* the lock; the events are handled in delivery order; the swap loses and
\* duplicates nothing; no callback appends to the list the main loop is
\* iterating; and when main ends every delivered event was either handled
\* once by the main loop or freed once at shutdown.
C40_EventQueue ==
    /\ [](t_pc \in {"while", "cond_wait", "swap", "handle", "stop", "free_back", "destroy", "end"} =>
             /\ \A j, k \in 1..Len(t_out.handled) : j < k => t_out.handled[j] < t_out.handled[k]
             /\ ~t_out.appended_while_iterated
             /\ t_pc = "end" =>
                   \A e \in 1..Len(t_out.kinds) :
                       Occurrences(t_out.handled, e) + Occurrences(t_out.freed, e) = 1)
    /\ [][Len(t_out'.kinds) > Len(t_out.kinds) =>
             t_out'.events_back = Append(t_out.events_back, Len(t_out'.kinds))]_vars

\* what holds: until the shutdown loop starts, every delivered event is
\* once in the handled events, the rest of events_front or events_back, and
\* the handled events are in delivery order; a callback appends to
\* events_back, never to the list the event loop iterates
C40_UntilShutdown ==
    t_pc \in {"while", "cond_wait", "swap", "handle", "stop"} =>
        /\ \A e \in 1..Len(t_out.kinds) :
              Occurrences(t_out.handled, e) + Occurrences(Unhandled, e) + Occurrences(t_out.events_back, e) = 1
        /\ \A j, k \in 1..Len(t_out.handled) : j < k => t_out.handled[j] < t_out.handled[k]
        /\ t_out.freed = << >>
        /\ ~t_out.appended_while_iterated

\* main has ended and an event the context delivered after the shutdown
\* loop is in events_back, neither handled nor freed
C40_LateEventLeaked ==
    /\ t_pc = "end"
    /\ ~t_out.appended_while_iterated
    /\ \E e \in 1..Len(t_out.kinds) :
          /\ Occurrences(t_out.events_back, e) = 1
          /\ Occurrences(t_out.handled, e) + Occurrences(t_out.freed, e) = 0

====
